---------------------------- MODULE Spec2Model ----------------------------
(***************************************************************************)
(* SweTrack polling engine: the Home Assistant integration                 *)
(* (custom_components/swetrack) and the standalone tool                    *)
(* (swetrack_extended.py).                                                 *)
(*                                                                         *)
(* Four specifications share this module:                                  *)
(*   SpecReq    one HTTP exchange and its validation at each call site     *)
(*   SpecRows   the row extraction of the tool and of the coordinator       *)
(*   SpecPager  one run of fetch_extended_all_pages                        *)
(*   Spec       the coordinator: setup, refresh cycles, consumers          *)
(***************************************************************************)
EXTENDS Integers, Sequences, FiniteSets, TLC

VARIABLES
    \* ---- SpecReq: one exchange
    site,        \* the call site that validated the last response
    resp,        \* the last HTTP response (status, decoded body)
    outcome,     \* what the call site did with it
    \* ---- SpecRows: the row extraction applied to one payload
    ex_typ,      \* argument typ of both extractions
    ex_payload,  \* the validated payload
    tool_rows,   \* rows of the page in fetch_extended_all_pages (JNull: not run)
    coord_rows,  \* what _extract_extended_rows returned (JNull: not run)
    \* ---- SpecPager: one call of fetch_extended_all_pages
    typ,         \* argument typ
    start_iso,   \* argument start_iso (JNull: not given)
    stop_iso,    \* argument stop_iso (JNull: not given)
    pagesize,    \* argument pagesize
    max_rows,    \* argument max_rows
    page,        \* local page
    all_rows,    \* local all_rows
    last_meta,   \* local last_meta
    raw_pages,   \* local raw_pages
    fpc,         \* "off", "loop", "returned" or "raised"
    result,      \* the returned tuple, or the exception
    requests,    \* the request bodies posted so far, in order
    served,      \* what the server answered to each of them, in order
    recorded,    \* main: dev_out["extended"][typ] for this call
    first,       \* the outcome of the same call made before, if any
    \* ---- Spec: the config entry and its coordinator
    fetch_extended,       \* coordinator.fetch_extended
    setup_pc,             \* async_setup_entry: "start", "first_refresh", "loaded", "failed"
    hass_data,            \* the entry's coordinator is stored in hass.data[DOMAIN]
    platforms,            \* the platforms of the entry have been set up
    data,                 \* coordinator.data, the current snapshot
    last_update_success,  \* coordinator.last_update_success
    timer,                \* the refresh timer is armed
    inflight,             \* refresh cycles running
    pc,                   \* _async_update_data: "idle", "devices", "position", "voltage", "finish"
    trigger,              \* what started the cycle: "first" (setup) or "refresh"
    devices_payload,      \* local devices_payload
    devices,              \* local devices
    extended_by_device,   \* local extended_by_device
    idx,                  \* the position of the loop `for d in devices`
    ext,                  \* local ext
    exc,                  \* the exception raised inside the try block, if any
    bad,                  \* the stage at which the server failed the cycle, "-" if none
    last_good,            \* the snapshot built by the last cycle that ran without failure
    dropped,              \* a trigger arrived during the running cycle and started none
    torn_reads,           \* a consumer has read a snapshot that no cycle built in whole
    mid_read,             \* a consumer has read since the last step of the running cycle
    issued,               \* the requests the last cycle has issued, in order
    \* ---- SpecMain: one run of the tool's main
    mpc,         \* "off", "list", "device", "fetch", "record", "done" or "aborted"
    main_devices,  \* local devices
    dev_at,      \* the position of the loop `for d in devices`
    typ_at,      \* the position of the loop `for typ in types`
    dev_out,     \* local dev_out
    combined,    \* combined["devices"]
    raw_api,     \* raw_api["device_info_extended"]
    main_exc,    \* the exception that ended the run, if any
    fetched,     \* the (device position, type) pairs whose fetch was called, in order
    failed,      \* those of them whose fetch, or its unpacking, raised
    \* ---- SpecFlow: the setup flow of the integration
    flow_pc,     \* async_step_user: "off", "idle", "devices", "account", "unique"
    user_input,  \* argument user_input of the running submission (JNull: none)
    unique,      \* local unique (JNull: not computed)
    flow_result, \* the FlowResult of the last call of async_step_user
    entries,     \* the unique ids of the config entries that exist
    created,     \* the data of the entries the flow has created
    flow_ok,     \* the API calls that returned in the running submission
    caught,      \* the exception the except clauses of the submission caught
    submissions  \* how many forms the user has submitted

reqVars == <<site, resp, outcome>>
rowVars == <<ex_typ, ex_payload, tool_rows, coord_rows>>
pagerVars == <<typ, start_iso, stop_iso, pagesize, max_rows, page, all_rows,
               last_meta, raw_pages, fpc, result, requests, served, recorded, first>>
setupVars == <<fetch_extended, setup_pc, hass_data, platforms>>
frameworkVars == <<data, last_update_success, timer, inflight>>
cycleVars == <<pc, trigger, devices_payload, devices, extended_by_device, idx, ext, exc>>
ghostVars == <<bad, last_good, dropped, torn_reads, mid_read, issued>>
coordVars == <<setupVars, frameworkVars, cycleVars, ghostVars>>
mainVars == <<mpc, main_devices, dev_at, typ_at, dev_out, combined, raw_api, main_exc,
              fetched, failed>>
flowVars == <<flow_pc, user_input, unique, flow_result, entries, created, flow_ok,
              caught, submissions>>
vars == <<reqVars, rowVars, pagerVars, coordVars, mainVars, flowVars>>

(***************************************************************************)
(* JSON values, as Python sees them after decoding: tagged records.  A     *)
(* dict is a TLA+ record (a function on its keys), so a key that is absent *)
(* is a key outside its DOMAIN.                                            *)
(***************************************************************************)
JNull == [t |-> "null"]
JTrue == [t |-> "bool", v |-> TRUE]
JFalse == [t |-> "bool", v |-> FALSE]
JInt(n) == [t |-> "int", v |-> n]
JStr(s) == [t |-> "str", v |-> s]
JList(s) == [t |-> "list", v |-> s]
JDict(f) == [t |-> "dict", v |-> f]
EmptyDict == JDict(<<>>)
EmptyList == JList(<<>>)
\* a body that is not JSON at all: decoding it raises
NotJson == [t |-> "invalid"]

IsDict(x) == x.t = "dict"
IsList(x) == x.t = "list"

\* dict.get(key): None when the key is absent
Get(d, key) == IF key \in DOMAIN d.v THEN d.v[key] ELSE JNull
\* dict.get(key, default)
GetDefault(d, key, default) == IF key \in DOMAIN d.v THEN d.v[key] ELSE default

\* Python truthiness, which `or`, `not` and `if x` test
Truthy(x) ==
    CASE x.t = "null" -> FALSE
      [] x.t = "bool" -> x.v
      [] x.t = "int" -> x.v # 0
      [] x.t = "str" -> x.v # ""
      [] x.t = "list" -> Len(x.v) > 0
      [] x.t = "dict" -> DOMAIN x.v # {}
      [] OTHER -> TRUE

\* a or b
Or(a, b) == IF Truthy(a) THEN a ELSE b

\* x is False
IsFalse(x) == x = JFalse

(***************************************************************************)
(* Outcomes of a call: a returned value or a raised exception.             *)
(***************************************************************************)
Return(value) == [kind |-> "return", exc |-> "-", msg |-> "-", value |-> value]
Raise(e, msg, detail) == [kind |-> "raise", exc |-> e, msg |-> msg, value |-> detail]
NoOutcome == [kind |-> "none", exc |-> "-", msg |-> "-", value |-> JNull]
NoResp == [status |-> 0, json |-> JNull]

Returned(o) == o.kind = "return"
Raised(o) == o.kind = "raise"

(***************************************************************************)
(* The integration's client: SweTrackApiClient._request.                   *)
(***************************************************************************)
\* the mutant accepts every HTTP status
RequestAnyStatus(r) ==
    IF r.json = NotJson THEN Raise("JSONDecodeError", "json", JNull)
    ELSE IF IsDict(r.json) /\ IsFalse(Get(r.json, "success"))
        THEN Raise("SweTrackApiError", "API error", Or(Get(r.json, "error"), r.json))
    ELSE IF ~IsDict(r.json) THEN Raise("SweTrackApiError", "Unexpected response", r.json)
    ELSE Return(r.json)

\* the mutant drops the envelope check
RequestNoEnvelope(r) ==
    IF r.json = NotJson THEN Raise("JSONDecodeError", "json", JNull)
    ELSE IF r.status >= 400 THEN Raise("SweTrackApiError", "HTTP", r.json)
    ELSE IF ~IsDict(r.json) THEN Raise("SweTrackApiError", "Unexpected response", r.json)
    ELSE Return(r.json)

Request(r) ==
    IF r.json = NotJson THEN Raise("JSONDecodeError", "json", JNull)
    ELSE IF r.status >= 400 THEN Raise("SweTrackApiError", "HTTP", r.json)
    ELSE IF IsDict(r.json) /\ IsFalse(Get(r.json, "success"))
        THEN Raise("SweTrackApiError", "API error", Or(Get(r.json, "error"), r.json))
    ELSE IF ~IsDict(r.json) THEN Raise("SweTrackApiError", "Unexpected response", r.json)
    ELSE Return(r.json)

(***************************************************************************)
(* The tool's requester: api_get / api_post.  raise_for_status raises for  *)
(* 400 <= status < 600; r.json() returns whatever the body decodes to.     *)
(***************************************************************************)
ApiCall(r) ==
    IF r.status >= 400 /\ r.status < 600 THEN Raise("HTTPError", "HTTP", JNull)
    ELSE IF r.json = NotJson THEN Raise("JSONDecodeError", "json", JNull)
    ELSE Return(r.json)

\* payload.get(...) on a decoded value that is no dict
NoGet(payload) == Raise("AttributeError", "no attribute get", payload)

\* the tool's envelope test: `if not payload.get("success")`
EnvelopeFails(payload) == ~Truthy(Get(payload, "success"))

\* get_devices
GetDevices(r) ==
    LET got == ApiCall(r) IN
    IF Raised(got) THEN got
    ELSE IF ~IsDict(got.value) THEN NoGet(got.value)
    ELSE IF EnvelopeFails(got.value)
        THEN Raise("RuntimeError", "/devices/info error", Or(Get(got.value, "error"), got.value))
    ELSE Return(got.value)

\* main: the device-list request and its check
MainDevices(r) ==
    LET got == ApiCall(r) IN
    IF Raised(got) THEN got
    ELSE IF ~IsDict(got.value) THEN NoGet(got.value)
    ELSE IF EnvelopeFails(got.value)
        THEN Raise("RuntimeError", "/devices/info error", got.value)
    ELSE Return(got.value)

\* fetch_extended_all_pages: the request of one page and its envelope check
PagePayload(r) ==
    LET got == ApiCall(r) IN
    IF Raised(got) THEN got
    ELSE IF ~IsDict(got.value) THEN NoGet(got.value)
    ELSE IF EnvelopeFails(got.value)
        THEN Raise("RuntimeError", "/device/info/extended error", Or(Get(got.value, "error"), got.value))
    ELSE Return(got.value)

(***************************************************************************)
(* SpecReq: the server answers one request with any status and body of a   *)
(* small universe, and the call site validates it.                         *)
(***************************************************************************)
Statuses == {200, 204, 304, 404, 500}
SuccessValues == {JTrue, JFalse, JNull, JInt(0)}
ErrorValues == {JNull, JStr(""), JStr("rate limited")}

\* an envelope {success?, error?, data: {}}; "-" leaves the key out
Envelope(hasSuccess, s, hasError, e) ==
    JDict((IF hasSuccess THEN [success |-> s] ELSE <<>>)
          @@ (IF hasError THEN [error |-> e] ELSE <<>>)
          @@ [data |-> EmptyDict])

Envelopes ==
    {Envelope(hs, s, he, e) : hs \in BOOLEAN, s \in SuccessValues,
                              he \in BOOLEAN, e \in ErrorValues}

Bodies == Envelopes \cup {EmptyList, NotJson}
HttpResponses == [status : Statuses, json : Bodies]

ReqIdle ==
    /\ site = "-"
    /\ resp = NoResp
    /\ outcome = NoOutcome

RowsIdle ==
    /\ ex_typ = "-"
    /\ ex_payload = JNull
    /\ tool_rows = JNull
    /\ coord_rows = JNull

\* nothing recorded yet for the type; no earlier call
NoRecord == JNull
NoCall == [made |-> FALSE]

PagerIdle ==
    /\ typ = "-"
    /\ start_iso = JNull
    /\ stop_iso = JNull
    /\ pagesize = 0
    /\ max_rows = 0
    /\ page = 0
    /\ all_rows = <<>>
    /\ last_meta = JNull
    /\ raw_pages = <<>>
    /\ fpc = "off"
    /\ result = NoOutcome
    /\ requests = <<>>
    /\ served = <<>>
    /\ recorded = NoRecord
    /\ first = NoCall

NoData == JNull

MainIdle ==
    /\ mpc = "off"
    /\ main_devices = <<>>
    /\ dev_at = 0
    /\ typ_at = 0
    /\ dev_out = JNull
    /\ combined = <<>>
    /\ raw_api = <<>>
    /\ main_exc = NoOutcome
    /\ fetched = <<>>
    /\ failed = {}

NoResult == [type |-> "-"]

FlowIdle ==
    /\ flow_pc = "off"
    /\ user_input = JNull
    /\ unique = JNull
    /\ flow_result = NoResult
    /\ entries = {}
    /\ created = <<>>
    /\ flow_ok = {}
    /\ caught = NoOutcome
    /\ submissions = 0

\* the tool's run and the setup flow are not part of the specification
ElseIdle == MainIdle /\ FlowIdle

CoordIdle ==
    /\ fetch_extended = FALSE
    /\ setup_pc = "-"
    /\ hass_data = FALSE
    /\ platforms = FALSE
    /\ data = NoData
    /\ last_update_success = TRUE
    /\ timer = FALSE
    /\ inflight = 0
    /\ pc = "idle"
    /\ trigger = "-"
    /\ devices_payload = JNull
    /\ devices = <<>>
    /\ extended_by_device = <<>>
    /\ idx = 0
    /\ ext = <<>>
    /\ exc = NoOutcome
    /\ bad = "-"
    /\ last_good = NoData
    /\ dropped = FALSE
    /\ torn_reads = FALSE
    /\ mid_read = FALSE
    /\ issued = <<>>

InitReq == ReqIdle /\ RowsIdle /\ PagerIdle /\ CoordIdle /\ ElseIdle

\* SweTrackApiClient._request
DoRequest ==
    \E r \in HttpResponses :
        /\ site' = "_request"
        /\ resp' = r
        /\ outcome' = Request(r)
        /\ UNCHANGED <<rowVars, mainVars, flowVars, pagerVars, coordVars>>

\* get_devices
DoGetDevices ==
    \E r \in HttpResponses :
        /\ site' = "get_devices"
        /\ resp' = r
        /\ outcome' = GetDevices(r)
        /\ UNCHANGED <<rowVars, mainVars, flowVars, pagerVars, coordVars>>

\* main's own device-list check
DoMainDevices ==
    \E r \in HttpResponses :
        /\ site' = "main"
        /\ resp' = r
        /\ outcome' = MainDevices(r)
        /\ UNCHANGED <<rowVars, mainVars, flowVars, pagerVars, coordVars>>

\* one page of fetch_extended_all_pages
DoPagePayload ==
    \E r \in HttpResponses :
        /\ site' = "fetch_extended_all_pages"
        /\ resp' = r
        /\ outcome' = PagePayload(r)
        /\ UNCHANGED <<rowVars, mainVars, flowVars, pagerVars, coordVars>>

NextReq == DoRequest \/ DoGetDevices \/ DoMainDevices \/ DoPagePayload

SpecReq == InitReq /\ [][NextReq]_vars

(***************************************************************************)
(* The tool's paginator: fetch_extended_all_pages.                         *)
(***************************************************************************)
device_id == "d1"

\* the request body of one page
\* the mutant sends the time filters with the first page only
BodyFiltersOnce(t, pg, ps, st, sp) ==
    JDict([deviceid |-> JStr(device_id), type |-> JStr(t),
           page |-> JInt(pg), pagesize |-> JInt(ps)]
          @@ (IF Truthy(st) /\ pg = 1 THEN [startdatetime |-> st] ELSE <<>>)
          @@ (IF Truthy(sp) /\ pg = 1 THEN [stopdatetime |-> sp] ELSE <<>>))

Body(t, pg, ps, st, sp) ==
    JDict([deviceid |-> JStr(device_id), type |-> JStr(t),
           page |-> JInt(pg), pagesize |-> JInt(ps)]
          @@ (IF Truthy(st) THEN [startdatetime |-> st] ELSE <<>>)
          @@ (IF Truthy(sp) THEN [stopdatetime |-> sp] ELSE <<>>))

\* the rows of one page, by the per-type rule, None replaced by [] and a
\* value that is no list wrapped in a list
\* the mutant reads, for a type other than position and voltage, only the
\* field named exactly the type
ExtractRowsNoPlural(payload, t) ==
    LET dat == Or(GetDefault(payload, "data", EmptyDict), EmptyDict)
        rows == IF ~IsDict(dat) THEN EmptyList
                ELSE IF t = "position" THEN GetDefault(dat, "positions", EmptyList)
                ELSE IF t = "voltage" THEN GetDefault(dat, "voltage", EmptyList)
                ELSE Or(Get(dat, t), EmptyList)
        listed == IF rows = JNull THEN EmptyList ELSE rows
    IN  IF IsList(listed) THEN listed.v ELSE <<listed>>

ExtractRows(payload, t) ==
    LET dat == Or(GetDefault(payload, "data", EmptyDict), EmptyDict)
        rows == IF ~IsDict(dat) THEN EmptyList
                ELSE IF t = "position" THEN GetDefault(dat, "positions", EmptyList)
                ELSE IF t = "voltage" THEN GetDefault(dat, "voltage", EmptyList)
                ELSE Or(Or(Get(dat, t), Get(dat, t \o "s")), EmptyList)
        listed == IF rows = JNull THEN EmptyList ELSE rows
    IN  IF IsList(listed) THEN listed.v ELSE <<listed>>

\* payload.get("pagination") or payload.get("data", {}).get("pagination") or {}
Pagination(payload) ==
    LET top == Get(payload, "pagination") IN
    IF Truthy(top) THEN Return(top)
    ELSE LET dat == GetDefault(payload, "data", EmptyDict) IN
         IF ~IsDict(dat) THEN NoGet(dat)
         ELSE Return(Or(Get(dat, "pagination"), EmptyDict))

\* isinstance(x, int): bool is a subclass of int
IsInt(x) == x.t \in {"int", "bool"}
IntOf(x) == IF x.t = "bool" THEN (IF x.v THEN 1 ELSE 0) ELSE x.v

\* s[:n]
Slice(s, n) ==
    IF n >= 0 THEN SubSeq(s, 1, IF n < Len(s) THEN n ELSE Len(s))
    ELSE SubSeq(s, 1, IF Len(s) + n > 0 THEN Len(s) + n ELSE 0)

\* the three tuples the function returns
CapReturn(acc, meta) == Return(<<JList(Slice(acc, max_rows)), meta>>)
EmptyReturn(acc, meta) == Return(<<JList(acc), meta>>)
LastReturn(acc, meta, raw) == Return(<<JList(acc), meta, JList(raw)>>)

Stepped(c, acc, meta, out) == [ctl |-> c, all_rows |-> acc, last_meta |-> meta, out |-> out]

\* the last-page test; the mutant stops one page late
LastPageLate(pagination) ==
    LET total_pages == Get(pagination, "total_pages")
        cur_page == GetDefault(pagination, "page", JInt(page))
    IN  IsInt(total_pages) /\ IntOf(cur_page) > IntOf(total_pages)

LastPage(pagination) ==
    LET total_pages == Get(pagination, "total_pages")
        cur_page == GetDefault(pagination, "page", JInt(page))
    IN  IsInt(total_pages) /\ IntOf(cur_page) >= IntOf(total_pages)

\* the comparison cur_page >= total_pages raises on a page that is no number
PageComparable(pagination) ==
    IsInt(Get(pagination, "total_pages")) => IsInt(GetDefault(pagination, "page", JInt(page)))

\* the mutants of the stop conditions
\* the cap stop returns the accumulated rows untruncated
StopNoTruncate(rows, acc, meta, pagination, raw) ==
    IF Len(acc) >= max_rows THEN Stepped("cap", acc, meta, EmptyReturn(acc, meta))
    ELSE IF rows = <<>> THEN Stepped("empty", acc, meta, EmptyReturn(acc, meta))
    ELSE IF ~PageComparable(pagination)
        THEN Stepped("raise", acc, meta, Raise("TypeError", ">= not supported", pagination))
    ELSE IF LastPage(pagination) THEN Stepped("last", acc, meta, LastReturn(acc, meta, raw))
    ELSE Stepped("continue", acc, meta, NoOutcome)

\* the row cap is never tested
StopNeverCaps(rows, acc, meta, pagination, raw) ==
    IF rows = <<>> THEN Stepped("empty", acc, meta, EmptyReturn(acc, meta))
    ELSE IF ~PageComparable(pagination)
        THEN Stepped("raise", acc, meta, Raise("TypeError", ">= not supported", pagination))
    ELSE IF LastPage(pagination) THEN Stepped("last", acc, meta, LastReturn(acc, meta, raw))
    ELSE Stepped("continue", acc, meta, NoOutcome)

\* an empty page does not stop the loop
StopIgnoresEmpty(rows, acc, meta, pagination, raw) ==
    IF Len(acc) >= max_rows THEN Stepped("cap", acc, meta, CapReturn(acc, meta))
    ELSE IF ~PageComparable(pagination)
        THEN Stepped("raise", acc, meta, Raise("TypeError", ">= not supported", pagination))
    ELSE IF LastPage(pagination) THEN Stepped("last", acc, meta, LastReturn(acc, meta, raw))
    ELSE Stepped("continue", acc, meta, NoOutcome)

\* the stop conditions, in the order the code tests them
Stop(rows, acc, meta, pagination, raw) ==
    IF Len(acc) >= max_rows THEN Stepped("cap", acc, meta, CapReturn(acc, meta))
    ELSE IF rows = <<>> THEN Stepped("empty", acc, meta, EmptyReturn(acc, meta))
    ELSE IF ~PageComparable(pagination)
        THEN Stepped("raise", acc, meta, Raise("TypeError", ">= not supported", pagination))
    ELSE IF LastPage(pagination) THEN Stepped("last", acc, meta, LastReturn(acc, meta, raw))
    ELSE Stepped("continue", acc, meta, NoOutcome)

\* the locals at the entry of the function, whatever an earlier call left
\* the mutant keeps what the earlier call left
EnteredStale(left) == left

Entered(left) ==
    [page |-> 1, all_rows |-> <<>>, last_meta |-> EmptyDict, raw_pages |-> <<>>]

\* main: the assignment `rows, meta, raw_pages = ...` needs three values
Unpack3(res) ==
    IF Raised(res) THEN res
    ELSE IF Len(res.value) = 3 THEN res
    ELSE Raise("ValueError", "not enough values to unpack", JInt(Len(res.value)))

\* main: dev_out["extended"][typ], from the except clause or from line 264
Entry(res) ==
    LET got == Unpack3(res) IN
    IF Raised(got) THEN JDict([error |-> JStr(got.msg), rows |-> EmptyList])
    ELSE JDict([rows |-> got.value[1], meta |-> got.value[2]])

\* one iteration of the loop on an accepted payload; raw is raw_pages after
\* the append
Iterate(payload, raw) ==
    LET rows == ExtractRows(payload, typ)
        acc == all_rows \o rows
        meta == Or(GetDefault(payload, "meta", EmptyDict), EmptyDict)
        pg == Pagination(payload)
    IN  IF Raised(pg) THEN Stepped("raise", acc, meta, pg)
        ELSE IF ~IsDict(pg.value) THEN Stepped("raise", acc, meta, NoGet(pg.value))
        ELSE Stop(rows, acc, meta, pg.value, raw)

\* raw_pages.append(payload) follows api_post and precedes the envelope check
RawAfter(r) ==
    IF Returned(ApiCall(r)) THEN Append(raw_pages, ApiCall(r).value) ELSE raw_pages

\* one iteration of the loop on the response r
PageStep(r) ==
    LET got == PagePayload(r) IN
    IF Raised(got) THEN Stepped("raise", all_rows, last_meta, got)
    ELSE Iterate(got.value, RawAfter(r))

(***************************************************************************)
(* The server of SpecPager.  An answer describes what the server sends for *)
(* a page: how many rows, in which shape, with which pagination            *)
(* descriptor; Render builds the response from it, following the API's     *)
(* schema.                                                                 *)
(***************************************************************************)
MaxRowsBound == 4
MaxPageRows == 2

Row(pg, i) == JDict([page |-> JInt(pg), i |-> JInt(i)])
RowsOf(pg, n) == [i \in 1..n |-> Row(pg, i)]

Answer(kind, shape, n, pag, total, pagefield) ==
    [kind |-> kind, shape |-> shape, n |-> n, pag |-> pag, total |-> total,
     pagefield |-> pagefield]

\* pages that follow the schema
PlainPages ==
    {Answer("page", "list", n, "none", 0, "-") : n \in 0..MaxPageRows}
    \cup {Answer("page", "lone", 1, "none", 0, "-"),
          Answer("page", "missing", 0, "none", 0, "-"),
          Answer("page", "null", 0, "none", 0, "-"),
          Answer("page", "nodata", 0, "none", 0, "-")}

PaginatedPages ==
    {Answer("page", "list", n, pp[1], total, pp[2]) :
        n \in 1..2, total \in 1..2,
        pp \in {<<"top", "absent">>, <<"nested", "echo">>, <<"top", "first">>}}
    \cup {Answer("page", "list", 0, "top", 2, "echo"),
          Answer("page", "list", 1, "shadowed", 1, "echo")}

\* answers that make the request fail
FailingAnswers ==
    {Answer(k, "list", 1, "none", 0, "-") :
        k \in {"http_error", "api_error", "no_success", "array", "null_data",
               "bad_pagination", "bad_page"}}

Answers == PlainPages \cup PaginatedPages \cup FailingAnswers

\* the rows an answer carries for page pg
Carried(pg, a) ==
    IF a.kind \in {"page", "bad_pagination", "bad_page"} THEN RowsOf(pg, a.n) ELSE <<>>

\* the data field that holds the rows of a type
RowsField(t) ==
    IF t = "position" THEN "positions" ELSE IF t = "voltage" THEN "voltage" ELSE t

PageDescriptor(pg, a) ==
    JDict((IF a.pagefield = "echo" THEN [page |-> JInt(pg)]
           ELSE IF a.pagefield = "first" THEN [page |-> JInt(1)] ELSE <<>>)
          @@ [total_pages |-> JInt(a.total)])

DataOf(t, pg, a) ==
    JDict((CASE a.shape = "list" -> (RowsField(t) :> JList(RowsOf(pg, a.n)))
             [] a.shape = "lone" -> (RowsField(t) :> Row(pg, 1))
             [] a.shape = "null" -> (RowsField(t) :> JNull)
             [] OTHER -> <<>>)
          @@ (IF a.pag = "nested" \/ a.pag = "shadowed"
                THEN [pagination |-> PageDescriptor(pg, a)] ELSE <<>>))

PageBody(t, pg, a) ==
    JDict([success |-> JTrue, meta |-> JDict([count |-> JInt(a.n)])]
          @@ (IF a.shape = "nodata" THEN <<>> ELSE [data |-> DataOf(t, pg, a)])
          @@ (IF a.pag = "top" THEN [pagination |-> PageDescriptor(pg, a)]
              ELSE IF a.pag = "shadowed" THEN [pagination |-> JDict([page |-> JInt(pg)])]
              ELSE <<>>))

Render(t, pg, a) ==
    CASE a.kind = "http_error" -> [status |-> 500, json |-> EmptyDict]
      [] a.kind = "api_error" ->
            [status |-> 200, json |-> Envelope(TRUE, JFalse, TRUE, JStr("rate limited"))]
      [] a.kind = "no_success" ->
            [status |-> 200, json |-> JDict([data |-> DataOf(t, pg, a)])]
      [] a.kind = "array" -> [status |-> 200, json |-> EmptyList]
      [] a.kind = "null_data" ->
            [status |-> 200, json |-> JDict([success |-> JTrue, data |-> JNull])]
      [] a.kind = "bad_pagination" ->
            [status |-> 200, json |-> JDict([success |-> JTrue, data |-> DataOf(t, pg, a),
                                             pagination |-> JStr("x")])]
      [] a.kind = "bad_page" ->
            [status |-> 200, json |-> JDict([success |-> JTrue, data |-> DataOf(t, pg, a),
                                             pagination |-> JDict([page |-> JStr("1"),
                                                                   total_pages |-> JInt(2)])])]
      [] OTHER -> [status |-> 200, json |-> PageBody(t, pg, a)]

(***************************************************************************)
(* SpecPager: one call of fetch_extended_all_pages against that server.    *)
(***************************************************************************)
Call(t, st, sp, ps) == [typ |-> t, start_iso |-> st, stop_iso |-> sp, pagesize |-> ps]

Calls ==
    {Call("position", JNull, JNull, 1),
     Call("position", JStr("2026-02-04T00:00:00Z"), JStr("2026-02-04T23:59:59Z"), 200),
     Call("voltage", JStr("2026-02-04T00:00:00Z"), JNull, 200),
     Call("humidity", JNull, JStr("2026-02-04T23:59:59Z"), 200),
     Call("voltage", JStr(""), JStr("2026-02-04T23:59:59Z"), 1)}

InitPager ==
    /\ ReqIdle
    /\ RowsIdle
    /\ ElseIdle
    /\ CoordIdle
    /\ \E c \in Calls :
        /\ typ = c.typ
        /\ start_iso = c.start_iso
        /\ stop_iso = c.stop_iso
        /\ pagesize = c.pagesize
    /\ max_rows \in 0..MaxRowsBound
    /\ page = 1
    /\ all_rows = <<>>
    /\ last_meta = EmptyDict
    /\ raw_pages = <<>>
    /\ fpc = "loop"
    /\ result = NoOutcome
    /\ requests = <<>>
    /\ served = <<>>
    /\ recorded = NoRecord
    /\ first = NoCall

\* what the server may answer to the request of the current page: anything
\* the first time, and the answer it gave before when the same call has
\* already asked for that page
Offered ==
    IF first.made /\ page <= Len(first.served) THEN {first.served[page]} ELSE Answers

\* one iteration: the request of the current page, the server's answer and
\* everything the loop body does with it
Fetch(c, a) ==
    LET r == Render(typ, page, a)
        st == PageStep(r)
    IN  /\ st.ctl = c
        /\ requests' = Append(requests, Body(typ, page, pagesize, start_iso, stop_iso))
        /\ served' = Append(served, a)
        /\ raw_pages' = RawAfter(r)
        /\ all_rows' = st.all_rows
        /\ last_meta' = st.last_meta
        /\ result' = st.out
        /\ UNCHANGED <<reqVars, rowVars, mainVars, flowVars, coordVars, typ, start_iso, stop_iso, pagesize, max_rows,
                       recorded, first>>

\* the request or the handling of the page raises
FetchRaises ==
    /\ fpc = "loop"
    /\ \E a \in Offered : Fetch("raise", a)
    /\ fpc' = "raised"
    /\ page' = page

\* return all_rows[:max_rows], last_meta
FetchCap ==
    /\ fpc = "loop"
    /\ \E a \in Offered : Fetch("cap", a)
    /\ fpc' = "returned"
    /\ page' = page

\* return all_rows, last_meta
FetchEmpty ==
    /\ fpc = "loop"
    /\ \E a \in Offered : Fetch("empty", a)
    /\ fpc' = "returned"
    /\ page' = page

\* return all_rows, last_meta, raw_pages
FetchLast ==
    /\ fpc = "loop"
    /\ \E a \in Offered : Fetch("last", a)
    /\ fpc' = "returned"
    /\ page' = page

\* page += 1
FetchContinue ==
    /\ fpc = "loop"
    /\ \E a \in Offered : Fetch("continue", a)
    /\ fpc' = "loop"
    /\ page' = page + 1

\* main: `rows, meta, raw_pages = fetch_extended_all_pages(...)` inside the
\* try block, and the entry written for the type
MainRecords ==
    /\ fpc \in {"returned", "raised"}
    /\ recorded = NoRecord
    /\ recorded' = Entry(result)
    /\ UNCHANGED <<reqVars, rowVars, mainVars, flowVars, coordVars, typ, start_iso, stop_iso, pagesize, max_rows,
                   page, all_rows, last_meta, raw_pages, fpc, result, requests,
                   served, first>>

NextPager ==
    \/ FetchRaises
    \/ FetchCap
    \/ FetchEmpty
    \/ FetchLast
    \/ FetchContinue
    \/ MainRecords

SpecPager == InitPager /\ [][NextPager]_vars

(***************************************************************************)
(* SpecAgain: the same call made twice against a server that answers each  *)
(* request as it did before.                                               *)
(***************************************************************************)
\* the first call: a time window, a cap of one row and the largest cap
InitAgain ==
    /\ ReqIdle
    /\ RowsIdle
    /\ ElseIdle
    /\ CoordIdle
    /\ \E c \in {Call("position", JStr("2026-02-04T00:00:00Z"),
                       JStr("2026-02-04T23:59:59Z"), 200)} :
        /\ typ = c.typ
        /\ start_iso = c.start_iso
        /\ stop_iso = c.stop_iso
        /\ pagesize = c.pagesize
    /\ max_rows \in {1, MaxRowsBound}
    /\ page = 1
    /\ all_rows = <<>>
    /\ last_meta = EmptyDict
    /\ raw_pages = <<>>
    /\ fpc = "loop"
    /\ result = NoOutcome
    /\ requests = <<>>
    /\ served = <<>>
    /\ recorded = NoRecord
    /\ first = NoCall

\* fetch_extended_all_pages is entered with the same arguments once more
CallAgain ==
    /\ fpc \in {"returned", "raised"}
    /\ ~first.made
    /\ first' = [made |-> TRUE, result |-> result, requests |-> requests,
                 served |-> served]
    /\ LET loc == Entered([page |-> page, all_rows |-> all_rows,
                           last_meta |-> last_meta, raw_pages |-> raw_pages])
       IN  /\ page' = loc.page
           /\ all_rows' = loc.all_rows
           /\ last_meta' = loc.last_meta
           /\ raw_pages' = loc.raw_pages
    /\ fpc' = "loop"
    /\ result' = NoOutcome
    /\ requests' = <<>>
    /\ served' = <<>>
    /\ UNCHANGED <<reqVars, rowVars, mainVars, flowVars, coordVars, typ, start_iso, stop_iso, pagesize,
                   max_rows, recorded>>

NextAgain ==
    \/ FetchRaises
    \/ FetchCap
    \/ FetchEmpty
    \/ FetchLast
    \/ FetchContinue
    \/ CallAgain

SpecAgain == InitAgain /\ [][NextAgain]_vars

(***************************************************************************)
(* Claims about the validation of one response (SpecReq).                  *)
(***************************************************************************)
Validated == site # "-"
Status2xx == resp.status >= 200 /\ resp.status < 300
ExplicitFailure == IsDict(resp.json) /\ IsFalse(Get(resp.json, "success"))
EnvelopeError == outcome.msg \in {"API error", "/device/info/extended error"}
DetailSites == {"_request", "fetch_extended_all_pages"}

C6_NotExplicitFalseIsSuccess ==
    (Validated /\ Status2xx /\ IsDict(resp.json) /\ ~IsFalse(Get(resp.json, "success")))
        => outcome = Return(resp.json)

\* C7 (as stated): every response whose status is not 2xx fails, whatever
\* its body; a payload is returned only at a 2xx status with an envelope
\* that is not a failure.
C7_Non2xxFails ==
    /\ (Validated /\ ~Status2xx) => Raised(outcome)
    /\ (Validated /\ Returned(outcome)) => (Status2xx /\ ~ExplicitFailure)

(***************************************************************************)
(* Claims about one fetch of the paginator (SpecPager).                    *)
(***************************************************************************)
RECURSIVE Received(_)
\* the rows the server carried on pages 1..k, in the order they were sent
Received(k) == IF k = 0 THEN <<>> ELSE Received(k - 1) \o Carried(k, served[k])

Pages == 1..Len(served)
NonEmptyPage(a) == a.kind = "page" /\ a.n > 0
EmptyPage(a) == a.kind = "page" /\ a.n = 0
ResultRows == result.value[1]
\* the requests posted are those of pages 1..n, and the fetch has returned
StoppedAfter(n) ==
    /\ fpc = "returned"
    /\ Len(requests) = n
    /\ \A i \in 1..n : requests[i].v["page"] = JInt(i)

\* C8: when pages 1..k-1 carried rows (fewer than max_rows in all) and page
\* k carries an empty row list, the fetch returns the rows of pages 1..k-1
\* in order, and page k is the last one requested.
C8_EmptyPageStops ==
    \A k \in Pages :
        (/\ EmptyPage(served[k])
         /\ \A j \in 1..(k - 1) : NonEmptyPage(served[j])
         /\ Len(Received(k - 1)) < max_rows)
            => /\ StoppedAfter(k)
               /\ ResultRows = JList(Received(k - 1))

\* two pages with rows, then an empty page: the fetch returned their rows
C8_Witness ==
    /\ Len(served) = 3
    /\ NonEmptyPage(served[1]) /\ NonEmptyPage(served[2]) /\ EmptyPage(served[3])
    /\ StoppedAfter(3)
    /\ Len(ResultRows.v) >= 2

\* C9: when the rows received reach or exceed max_rows (max_rows >= 0) and
\* the fetch does not raise, the result is exactly the first max_rows rows
\* received, in order, and the page that reached the cap is the last one
\* requested.
C9_CapTruncates ==
    (/\ served # <<>>
     /\ Len(Received(Len(served))) >= max_rows
     /\ fpc # "raised")
        => /\ StoppedAfter(Len(served))
           /\ Len(ResultRows.v) = max_rows
           /\ ResultRows = JList(SubSeq(Received(Len(served)), 1, max_rows))
           /\ Len(Received(Len(served) - 1)) < max_rows \/ Len(served) = 1

\* the cap was passed in the middle of the second page
C9_Witness ==
    /\ Len(served) = 2
    /\ max_rows > 0
    /\ Len(Received(1)) < max_rows
    /\ Len(Received(2)) > max_rows
    /\ StoppedAfter(2)
    /\ Len(ResultRows.v) = max_rows

HasTotalPages(a) == a.kind = "page" /\ a.pag \in {"top", "nested", "shadowed"}
\* the descriptor the paginator reads carries total_pages
ReadsTotalPages(a) == a.kind = "page" /\ a.pag \in {"top", "nested"}
\* the page number that descriptor reports: its page field, else the page requested
ReportedPage(k, a) == IF a.pagefield = "first" THEN 1 ELSE k

\* C10 (as stated, for max_rows >= 1): when the response to page p carries a
\* descriptor with an integer total_pages and p >= total_pages, the fetch
\* stops after page p with all accumulated rows.
C10_RequestedPageReachesTotal ==
    \A k \in Pages :
        (max_rows >= 1 /\ HasTotalPages(served[k]) /\ k >= served[k].total)
            => /\ StoppedAfter(k)
               /\ ResultRows = JList(Received(k))

\* C10 (amended): when the descriptor the paginator reads (the top-level one
\* when non-empty, else the one nested under data) has an integer
\* total_pages and the page number it reports (its page field, else p) is
\* >= total_pages, the fetch stops after page p with the accumulated rows,
\* cut to max_rows when they reach it.
C10_ReportedPageReachesTotal ==
    \A k \in Pages :
        (ReadsTotalPages(served[k]) /\ ReportedPage(k, served[k]) >= served[k].total)
            => /\ StoppedAfter(k)
               /\ ResultRows = IF Len(Received(k)) >= max_rows
                                  THEN JList(SubSeq(Received(k), 1, max_rows))
                                  ELSE JList(Received(k))

\* total_pages = 2, two rows on page 1, one row on page 2, max_rows = 4:
\* three rows, and no third request
C10_Witness ==
    /\ max_rows = 4
    /\ Len(served) = 2
    /\ served[1] = Answer("page", "list", 2, "top", 2, "absent")
    /\ served[2] = Answer("page", "list", 1, "top", 2, "absent")
    /\ StoppedAfter(2)
    /\ Len(result.value) = 3
    /\ Len(ResultRows.v) = 3

\* C11 (as stated): whichever of the three stop conditions ended the fetch,
\* main records the returned rows and meta for the type, never an error
\* entry with empty rows.
C11_EveryStopIsRecorded ==
    (fpc = "returned" /\ max_rows >= 1 /\ recorded # NoRecord)
        => recorded = JDict([rows |-> result.value[1], meta |-> result.value[2]])

\* C20: a second call with the same arguments, answered page by page as
\* the first, posts the same requests in the same order and ends with the
\* same rows (the same return value or the same exception)
C20_SecondCallRepeatsFirst ==
    first.made =>
        /\ Len(requests) <= Len(first.requests)
        /\ \A i \in 1..Len(requests) : requests[i] = first.requests[i]
        /\ fpc \in {"returned", "raised"} =>
                (requests = first.requests /\ served = first.served /\ result = first.result)

\* both calls asked for pages 1 and 2 and returned the same three rows
C20_Witness ==
    /\ first.made
    /\ fpc = "returned"
    /\ Len(requests) = 2
    /\ requests = first.requests
    /\ result = first.result
    /\ Len(ResultRows.v) = 3

(***************************************************************************)
(* The integration's coordinator: SweTrackCoordinator._async_update_data.  *)
(***************************************************************************)
\* _extract_extended_rows
ExtractExtendedRows(payload, t) ==
    LET dat == Or(Get(payload, "data"), EmptyDict) IN
    IF ~IsDict(dat) THEN <<>>
    ELSE LET rows == IF t = "position" THEN GetDefault(dat, "positions", EmptyList)
                     ELSE IF t = "voltage" THEN GetDefault(dat, "voltage", EmptyList)
                     ELSE Or(Or(Get(dat, t), Get(dat, t \o "s")), EmptyList)
         IN  IF IsList(rows) THEN rows.v ELSE <<>>

\* devices = (devices_payload.get("data") or {}).get("devices") or [], and
\* [] when that is no list
DevicesOf(payload) ==
    LET dat == Or(Get(payload, "data"), EmptyDict) IN
    IF ~IsDict(dat) THEN NoGet(dat)
    ELSE LET d == Or(Get(dat, "devices"), EmptyList)
         IN  Return(IF IsList(d) THEN d.v ELSE <<>>)

\* the mutant leaves the loop at the first device without an id
AdvanceStopsAtBlank(devs, i) ==
    IF i > Len(devs) THEN [idx |-> i, exc |-> NoOutcome]
    ELSE IF ~IsDict(devs[i]) THEN [idx |-> i, exc |-> NoGet(devs[i])]
    ELSE IF ~Truthy(Get(devs[i], "id")) THEN [idx |-> Len(devs) + 1, exc |-> NoOutcome]
    ELSE [idx |-> i, exc |-> NoOutcome]

RECURSIVE Advance(_, _)
\* the loop `for d in devices` from position i on: the next device with a
\* non-empty id, or the exception d.get raises on an entry that is no dict
Advance(devs, i) ==
    IF i > Len(devs) THEN [idx |-> i, exc |-> NoOutcome]
    ELSE IF ~IsDict(devs[i]) THEN [idx |-> i, exc |-> NoGet(devs[i])]
    ELSE IF ~Truthy(Get(devs[i], "id")) THEN Advance(devs, i + 1)
    ELSE [idx |-> i, exc |-> NoOutcome]

\* the loop is entered from the first device when fetch_extended is set;
\* dv is the device list, or the exception met on the way to it
\* the mutant enters the loop whatever the flag
LoopEntryAlways(dv, flag) ==
    IF Raised(dv) THEN [idx |-> 0, exc |-> dv] ELSE Advance(dv.value, 1)

LoopEntry(dv, flag) ==
    IF Raised(dv) THEN [idx |-> 0, exc |-> dv]
    ELSE IF flag THEN Advance(dv.value, 1)
    ELSE [idx |-> Len(dv.value) + 1, exc |-> NoOutcome]

\* an exception raised by an awaited request leaves the try block at once:
\* nothing inside the loop catches it
\* the mutant goes on to the next request
AbortsNever(got) == FALSE

Aborts(got) == Raised(got)

\* async_get_extended: the body of POST /device/info/extended; page is left
\* at its default of 1
ExtendedBody(id, t, size) ==
    JDict([deviceid |-> JStr(id), type |-> JStr(t),
           page |-> JInt(1), pagesize |-> JInt(size)])

\* the key of the device the loop is at
DeviceId == Get(devices[idx], "id").v

\* ext[key] = rows[0] when rows is not empty
\* the mutant keeps the last row of the page
WithLatestLast(bundle, key, rows) ==
    IF rows # <<>> THEN (key :> rows[Len(rows)]) @@ bundle ELSE bundle

WithLatest(bundle, key, rows) ==
    IF rows # <<>> THEN (key :> rows[1]) @@ bundle ELSE bundle

\* extended_by_device[device_id] = ext
\* the mutant files the bundle under a key that is no device id
StoredOrphan(map, id, bundle) == (("device-" \o id) :> bundle) @@ map

Stored(map, id, bundle) == (id :> bundle) @@ map

\* the dict the function returns
Snapshot(payload, devs, map) ==
    JDict([devices_payload |-> payload, devices |-> JList(devs),
           extended |-> JDict([k \in DOMAIN map |-> JDict(map[k])])])

\* the except clauses: every exception leaves as UpdateFailed
\* the mutant returns what was fetched before the failure
UpdateDataPartial(e, payload, devs, map) ==
    IF e = NoOutcome \/ payload # JNull THEN Return(Snapshot(payload, devs, map))
    ELSE Raise("UpdateFailed", e.msg, e.value)

UpdateData(e, payload, devs, map) ==
    IF e = NoOutcome THEN Return(Snapshot(payload, devs, map))
    ELSE IF e.exc = "SweTrackApiError" THEN Raise("UpdateFailed", e.msg, e.value)
    ELSE Raise("UpdateFailed", "Unexpected error", e.value)

\* what a consumer can see of a cycle while it runs: the loop writes only
\* locals, coordinator.data is untouched until the function has returned
\* the mutant publishes the devices handled so far
VisiblePartial(current, payload, devs, map) == Snapshot(payload, devs, map)

Visible(current, payload, devs, map) == current

(***************************************************************************)
(* async_setup_entry, after the first refresh has ended.                   *)
(***************************************************************************)
\* the mutant stores the coordinator and sets up the platforms whatever the
\* first refresh did
AfterFirstRefreshAnyway(ok) == [setup_pc |-> "loaded", hass_data |-> TRUE, platforms |-> TRUE]

\* when async_config_entry_first_refresh raises, nothing below it runs
AfterFirstRefresh(ok) ==
    IF ok THEN [setup_pc |-> "loaded", hass_data |-> TRUE, platforms |-> TRUE]
    ELSE [setup_pc |-> "failed", hass_data |-> FALSE, platforms |-> FALSE]

(***************************************************************************)
(* The scheduler the coordinator inherits (DataUpdateCoordinator).         *)
(***************************************************************************)
\* the mutant starts a cycle on every trigger
StartsCycleAlways(running) == TRUE

\* a trigger starts a cycle only when none is running
StartsCycle(running) == running = 0

\* the refresh ends: the returned snapshot replaces the current one in one
\* assignment; on UpdateFailed the current one stays and the failure is
\* recorded
Assigned(current, res) == IF Returned(res) THEN res.value ELSE current

\* the timer after a refresh that was not the first: it is armed again
\* whatever the result
\* the mutant leaves it off after a failure
TimerStopsOnFailure(armed, ok) == armed /\ ok

TimerAfter(armed, ok) == armed

(***************************************************************************)
(* The server of Spec.                                                     *)
(***************************************************************************)
MaxReadings == 2

Device(id) == JDict([id |-> JStr(id), name |-> JStr("Car")])
NoIdDevice == JDict([name |-> JStr("Car")])
EmptyIdDevice == JDict([id |-> JStr(""), name |-> JStr("Car")])

DeviceLists ==
    {<<>>, <<Device("d1")>>, <<Device("d2"), Device("d1")>>,
     <<Device("d1"), Device("d1")>>,
     <<NoIdDevice, Device("d1")>>, <<Device("d2"), EmptyIdDevice>>}

ListAnswer(kind, devs) == [kind |-> kind, devs |-> devs]

ListAnswers ==
    {ListAnswer("ok", l) : l \in DeviceLists}
    \cup {ListAnswer(k, <<>>) :
            k \in {"no_data", "devices_object", "data_array", "bad_entry",
                   "http_error", "api_error", "not_json", "array"}}

\* the answers on which the request itself fails: an HTTP failure, an API
\* failure, a body that is no JSON object
FailingKinds == {"http_error", "api_error", "not_json", "array"}

RenderList(a) ==
    CASE a.kind = "ok" ->
            [status |-> 200,
             json |-> JDict([success |-> JTrue,
                             data |-> JDict([devices |-> JList(a.devs)])])]
      [] a.kind = "no_data" -> [status |-> 200, json |-> JDict([success |-> JTrue])]
      [] a.kind = "devices_object" ->
            [status |-> 200,
             json |-> JDict([success |-> JTrue,
                             data |-> JDict([devices |-> Device("d1")])])]
      [] a.kind = "data_array" ->
            [status |-> 200,
             json |-> JDict([success |-> JTrue, data |-> JList(<<Device("d1")>>)])]
      [] a.kind = "bad_entry" ->
            [status |-> 200,
             json |-> JDict([success |-> JTrue,
                             data |-> JDict([devices |-> JList(<<JStr("d1")>>)])])]
      [] a.kind = "http_error" ->
            [status |-> 500,
             json |-> JDict([success |-> JTrue,
                             data |-> JDict([devices |-> JList(<<Device("d1")>>)])])]
      [] a.kind = "api_error" ->
            [status |-> 200, json |-> Envelope(TRUE, JFalse, TRUE, JStr("rate limited"))]
      [] a.kind = "not_json" -> [status |-> 200, json |-> NotJson]
      [] OTHER -> [status |-> 200, json |-> EmptyList]

\* a row of an extended response: reading v, i-th row of the page
ExtRow(t, v, i) == JDict([type |-> JStr(t), value |-> JInt(v), i |-> JInt(i)])

ExtAnswer(kind, n, v) == [kind |-> kind, n |-> n, v |-> v]

ExtAnswers(t) ==
    {ExtAnswer("ok", 0, 1)}
    \cup {ExtAnswer("ok", n, v) :
            n \in 1..2, v \in 1..(IF t = "voltage" THEN MaxReadings ELSE 1)}
    \cup {ExtAnswer(k, 1, 1) : k \in {"missing", "http_error", "api_error"}}
    \cup (IF t = "position" THEN {ExtAnswer("lone", 1, 1)} ELSE {})

RenderExt(t, a) ==
    CASE a.kind = "ok" ->
            [status |-> 200,
             json |-> JDict([success |-> JTrue,
                             data |-> JDict(RowsField(t) :>
                                            JList([i \in 1..a.n |-> ExtRow(t, a.v, i)]))])]
      [] a.kind = "lone" ->
            [status |-> 200,
             json |-> JDict([success |-> JTrue,
                             data |-> JDict(RowsField(t) :> ExtRow(t, a.v, 1))])]
      [] a.kind = "missing" ->
            [status |-> 200, json |-> JDict([success |-> JTrue, data |-> EmptyDict])]
      [] a.kind = "http_error" -> [status |-> 404, json |-> EmptyDict]
      [] OTHER ->
            [status |-> 200, json |-> Envelope(TRUE, JFalse, TRUE, JStr("rate limited"))]

\* what an answer carries, as the server sees it: a list with a first row,
\* a lone object, or no row at all
NoRows == [shape |-> "none", first |-> JNull]
Sent(t, a) ==
    IF a.kind = "ok" /\ a.n >= 1 THEN [shape |-> "list", first |-> ExtRow(t, a.v, 1)]
    ELSE IF a.kind = "lone" THEN [shape |-> "lone", first |-> ExtRow(t, a.v, 1)]
    ELSE NoRows

\* the entry of the device-list request in the record of issued requests
ListRequest == <<"devices", "-", NoRows, JNull>>

(***************************************************************************)
(* Spec: one config entry, from async_setup_entry on.                      *)
(***************************************************************************)
Init ==
    /\ ReqIdle
    /\ RowsIdle
    /\ ElseIdle
    /\ PagerIdle
    /\ fetch_extended \in BOOLEAN
    /\ setup_pc = "start"
    /\ hass_data = FALSE
    /\ platforms = FALSE
    /\ data = NoData
    /\ last_update_success = TRUE
    /\ timer = FALSE
    /\ inflight = 0
    /\ pc = "idle"
    /\ trigger = "-"
    /\ devices_payload = JNull
    /\ devices = <<>>
    /\ extended_by_device = <<>>
    /\ idx = 0
    /\ ext = <<>>
    /\ exc = NoOutcome
    /\ bad = "-"
    /\ last_good = NoData
    /\ dropped = FALSE
    /\ torn_reads = FALSE
    /\ mid_read = FALSE
    /\ issued = <<>>

\* a refresh cycle begins: _async_update_data is entered
StartCycle(trig) ==
    /\ pc' = "devices"
    /\ trigger' = trig
    /\ dropped' = FALSE
    /\ inflight' = inflight + 1
    /\ devices_payload' = JNull
    /\ devices' = <<>>
    /\ extended_by_device' = <<>>
    /\ idx' = 0
    /\ ext' = <<>>
    /\ exc' = NoOutcome
    /\ bad' = "-"
    /\ issued' = <<>>

\* async_setup_entry up to `await coordinator.async_config_entry_first_refresh()`
SetupEntry ==
    /\ setup_pc = "start"
    /\ setup_pc' = "first_refresh"
    /\ StartCycle("first")
    /\ UNCHANGED <<reqVars, rowVars, mainVars, flowVars, pagerVars, fetch_extended, hass_data, platforms,
                   data, last_update_success, timer, last_good, torn_reads, mid_read>>

\* a trigger of the scheduler: it starts a cycle, or is dropped against the
\* cycle in progress
Trigger ==
    /\ setup_pc = "loaded"
    /\ IF StartsCycle(inflight)
         THEN StartCycle("refresh")
         ELSE dropped' = TRUE /\ UNCHANGED <<cycleVars, inflight, bad, issued>>
    /\ UNCHANGED <<reqVars, rowVars, mainVars, flowVars, pagerVars, setupVars, data, last_update_success,
                   timer, last_good, torn_reads, mid_read>>

\* the update interval elapses
TimerTick == timer /\ Trigger

\* a refresh is requested on demand
RequestRefresh == platforms /\ Trigger

\* devices_payload = await self.api.async_get_devices(), and the device list
FetchDevices ==
    /\ pc = "devices"
    /\ \E a \in ListAnswers :
        LET got == Request(RenderList(a))
            dv == IF Raised(got) THEN got ELSE DevicesOf(got.value)
            adv == LoopEntry(dv, fetch_extended)
        IN  /\ devices_payload' = IF Raised(got) THEN JNull ELSE got.value
            /\ devices' = IF Raised(dv) THEN <<>> ELSE dv.value
            /\ idx' = adv.idx
            /\ exc' = adv.exc
            /\ pc' = IF adv.exc = NoOutcome /\ adv.idx <= Len(devices')
                       THEN "position" ELSE "finish"
            /\ bad' = IF a.kind \in FailingKinds THEN "devices" ELSE "-"
            /\ issued' = Append(issued, ListRequest)
    /\ UNCHANGED <<reqVars, rowVars, mainVars, flowVars, pagerVars, setupVars, frameworkVars, trigger,
                   extended_by_device, ext, last_good, dropped, torn_reads>>
    /\ mid_read' = FALSE

\* pos_payload = await self.api.async_get_extended(device_id, "position", pagesize=1)
FetchPosition ==
    /\ pc = "position"
    /\ \E a \in ExtAnswers("position") :
        LET got == Request(RenderExt("position", a)) IN
        /\ exc' = IF Raised(got) THEN got ELSE NoOutcome
        /\ ext' = IF Raised(got) THEN <<>>
                  ELSE WithLatest(<<>>, "position_latest",
                                  ExtractExtendedRows(got.value, "position"))
        /\ pc' = IF Aborts(got) THEN "finish" ELSE "voltage"
        /\ bad' = IF a.kind \in FailingKinds THEN "position" ELSE "-"
        /\ issued' = Append(issued, <<"position", DeviceId, Sent("position", a),
                                   ExtendedBody(DeviceId, "position", 1)>>)
    /\ UNCHANGED <<reqVars, rowVars, mainVars, flowVars, pagerVars, setupVars, frameworkVars, trigger,
                   devices_payload, devices, extended_by_device, idx,
                   last_good, dropped, torn_reads>>
    /\ mid_read' = FALSE

\* volt_payload = await self.api.async_get_extended(device_id, "voltage", pagesize=1),
\* extended_by_device[device_id] = ext, and the loop moves on
FetchVoltage ==
    /\ pc = "voltage"
    /\ \E a \in ExtAnswers("voltage") :
        LET got == Request(RenderExt("voltage", a))
            bundle == WithLatest(ext, "voltage_latest",
                                 ExtractExtendedRows(got.value, "voltage"))
            adv == Advance(devices, idx + 1)
        IN  /\ bad' = IF a.kind \in FailingKinds THEN "voltage" ELSE "-"
            /\ issued' = Append(issued, <<"voltage", DeviceId, Sent("voltage", a),
                                      ExtendedBody(DeviceId, "voltage", 1)>>)
            /\ IF Raised(got)
                 THEN /\ exc' = got
                      /\ pc' = "finish"
                      /\ UNCHANGED <<ext, extended_by_device, idx>>
                 ELSE /\ ext' = bundle
                      /\ extended_by_device' = Stored(extended_by_device, DeviceId, bundle)
                      /\ idx' = adv.idx
                      /\ exc' = adv.exc
                      /\ pc' = IF adv.exc = NoOutcome /\ adv.idx <= Len(devices)
                                 THEN "position" ELSE "finish"
            /\ data' = Visible(data, devices_payload, devices, extended_by_device')
    /\ UNCHANGED <<reqVars, rowVars, mainVars, flowVars, pagerVars, setupVars, last_update_success, timer,
                   inflight, trigger, devices_payload, devices, last_good,
                   dropped, torn_reads>>
    /\ mid_read' = FALSE

\* _async_update_data returns or raises UpdateFailed, and the scheduler
\* takes the result
EndCycle ==
    LET res == UpdateData(exc, devices_payload, devices, extended_by_device) IN
    /\ pc = "finish"
    /\ data' = Assigned(data, res)
    /\ last_update_success' = Returned(res)
    /\ last_good' = IF exc = NoOutcome
                      THEN Snapshot(devices_payload, devices, extended_by_device)
                      ELSE last_good
    /\ inflight' = inflight - 1
    /\ pc' = "idle"
    /\ devices_payload' = JNull
    /\ devices' = <<>>
    /\ extended_by_device' = <<>>
    /\ idx' = 0
    /\ ext' = <<>>
    /\ exc' = NoOutcome
    /\ trigger' = "-"
    /\ dropped' = FALSE
    /\ mid_read' = FALSE
    /\ UNCHANGED <<reqVars, rowVars, mainVars, flowVars, pagerVars, fetch_extended, bad, torn_reads, issued>>

\* the first refresh ends inside async_setup_entry, which stores the
\* coordinator and forwards the platforms, or propagates the failure
EndFirstRefresh ==
    /\ trigger = "first"
    /\ EndCycle
    /\ LET after == AfterFirstRefresh(last_update_success') IN
        /\ setup_pc' = after.setup_pc
        /\ hass_data' = after.hass_data
        /\ platforms' = after.platforms
        /\ timer' = after.platforms

\* a later refresh ends: the timer stays armed whatever the result
EndRefresh ==
    /\ trigger # "first"
    /\ EndCycle
    /\ timer' = TimerAfter(timer, last_update_success')
    /\ UNCHANGED <<setup_pc, hass_data, platforms>>

\* an entity reads coordinator.data (SweTrackSensor._device, native_value)
ConsumerRead ==
    /\ platforms
    /\ torn_reads' = (torn_reads \/ data # last_good)
    /\ mid_read' = (pc # "idle")
    /\ UNCHANGED <<reqVars, rowVars, mainVars, flowVars, pagerVars, setupVars, frameworkVars, cycleVars,
                   bad, last_good, dropped, issued>>

Next ==
    \/ SetupEntry
    \/ TimerTick
    \/ RequestRefresh
    \/ FetchDevices
    \/ FetchPosition
    \/ FetchVoltage
    \/ EndFirstRefresh
    \/ EndRefresh
    \/ ConsumerRead

Spec == Init /\ [][Next]_vars

(***************************************************************************)
(* SpecLive: an entry with fetch_extended off, under fairness: the setup   *)
(* goes on, an armed timer fires, a request returns (every call has a      *)
(* timeout) and a refresh that has its result ends.                        *)
(***************************************************************************)
InitLive == Init /\ ~fetch_extended

NextLive ==
    \/ SetupEntry
    \/ TimerTick
    \/ FetchDevices
    \/ EndFirstRefresh
    \/ EndRefresh

SpecLive ==
    /\ InitLive
    /\ [][NextLive]_vars
    /\ WF_vars(SetupEntry)
    /\ WF_vars(TimerTick)
    /\ WF_vars(FetchDevices)
    /\ WF_vars(EndFirstRefresh)
    /\ WF_vars(EndRefresh)

(***************************************************************************)
(* SpecRows: both extractions applied to one validated payload.            *)
(***************************************************************************)
ValueRow(v) == JDict([value |-> JInt(v)])

\* a field of the data object: absent, or present with a value
Absent == [has |-> FALSE, v |-> JNull]
Present(x) == [has |-> TRUE, v |-> x]

\* values of the field named exactly the type, and of the field named
\* type + "s"
ExactValues ==
    {Absent, Present(EmptyList), Present(JNull), Present(ValueRow(41)),
     Present(JList(<<ValueRow(41)>>)), Present(JList(<<ValueRow(41), ValueRow(43)>>))}
PluralValues ==
    {Absent, Present(EmptyList), Present(ValueRow(42)), Present(JList(<<ValueRow(42)>>))}

DataWith(t, e, p) ==
    JDict((IF e.has THEN (t :> e.v) ELSE <<>>)
          @@ (IF p.has THEN ((t \o "s") :> p.v) ELSE <<>>))

ExTypes == {"position", "voltage", "humidity"}

ExPayloads(t) ==
    {JDict([data |-> DataWith(t, e, p)]) : e \in ExactValues, p \in PluralValues}
    \cup {EmptyDict, JDict([data |-> JNull]), JDict([data |-> JList(<<ValueRow(41)>>)])}

InitRows ==
    /\ ReqIdle
    /\ PagerIdle
    /\ CoordIdle
    /\ ElseIdle
    /\ ex_typ \in ExTypes
    /\ ex_payload \in ExPayloads(ex_typ)
    /\ tool_rows = JNull
    /\ coord_rows = JNull

\* fetch_extended_all_pages, lines 128-146
ToolExtracts ==
    /\ tool_rows = JNull
    /\ tool_rows' = JList(ExtractRows(ex_payload, ex_typ))
    /\ UNCHANGED <<reqVars, pagerVars, coordVars, mainVars, flowVars, ex_typ, ex_payload, coord_rows>>

\* _extract_extended_rows
CoordExtracts ==
    /\ coord_rows = JNull
    /\ coord_rows' = JList(ExtractExtendedRows(ex_payload, ex_typ))
    /\ UNCHANGED <<reqVars, pagerVars, coordVars, mainVars, flowVars, ex_typ, ex_payload, tool_rows>>

NextRows == ToolExtracts \/ CoordExtracts

SpecRows == InitRows /\ [][NextRows]_vars

(***************************************************************************)
(* SpecMain: one run of the tool's main, from the device-list request to   *)
(* the end of the loops.                                                   *)
(***************************************************************************)
\* types = [t.strip() for t in args.types.split(",") if t.strip()], for
\* --types position,voltage
types == <<"position", "voltage">>

\* devices = devices_payload.get("data", {}).get("devices", []) or []
MainDevicesOf(payload) ==
    LET dat == GetDefault(payload, "data", EmptyDict) IN
    IF ~IsDict(dat) THEN NoGet(dat)
    ELSE Return(Or(GetDefault(dat, "devices", EmptyList), EmptyList))

\* the keys of a dict, as strings, in the order the dict holds them
KeysOf(d) ==
    LET ks == DOMAIN d.v
        order == CHOOSE f \in [1..Cardinality(ks) -> ks] : \A k \in ks : \E i \in DOMAIN f : f[i] = k
    IN  [i \in 1..Cardinality(ks) |-> JStr(order[i])]

\* what `for d in devices` iterates over: the elements of a list, the keys
\* of a dict
Iterated(d) ==
    IF IsList(d) THEN Return(d.v)
    ELSE IF IsDict(d) THEN Return(KeysOf(d))
    ELSE Raise("TypeError", "object is not iterable", d)

\* the head of the loop body: dev_id, name, model, status and dev_out; the
\* reads are outside the try block
Header(d) ==
    IF ~IsDict(d) THEN NoGet(d)
    ELSE LET m == Or(Get(d, "model"), EmptyDict) IN
         IF ~IsDict(m) THEN NoGet(m)
         ELSE Return(JDict([id |-> Get(d, "id"),
                            name |-> GetDefault(d, "name", JStr("-")),
                            model |-> GetDefault(m, "model", JStr("-")),
                            status |-> GetDefault(d, "status", JStr("-")),
                            extended |-> EmptyDict]))

\* dev_out["extended"][t] = entry
WithEntry(out, t, entry) ==
    JDict([out.v EXCEPT !.extended = JDict((t :> entry) @@ out.v.extended.v)])

\* the entry appended to raw_api["device_info_extended"]
RawEntry(out, t, pages) ==
    JDict([device_id |-> Get(out, "id"), device_name |-> Get(out, "name"),
           type |-> JStr(t), pages |-> pages])

\* where the loops stand after the pair (device i, type j) is recorded:
\* `continue` and the end of the body both go on with the next type, and the
\* next device follows the last type
\* the mutant leaves the loop over the types when the fetch has failed
NextPairBreaks(i, j, fail) ==
    IF fail \/ j >= Len(types) THEN [dev |-> i + 1, typ |-> 0] ELSE [dev |-> i, typ |-> j + 1]

NextPair(i, j, fail) ==
    IF j < Len(types) THEN [dev |-> i, typ |-> j + 1] ELSE [dev |-> i + 1, typ |-> 0]

\* the device lists of SpecMain: those of Spec and one whose second entry
\* is no object
MainListAnswers == ListAnswers \cup {ListAnswer("ok", <<Device("d2"), JStr("d1")>>)}

\* the pages of SpecMain: one row on the last page, a failing request, one
\* row without pagination, an empty page
MainAnswers ==
    {Answer("page", "list", 1, "top", 1, "absent"),
     Answer("http_error", "list", 1, "none", 0, "-"),
     Answer("page", "list", 1, "none", 0, "-"),
     Answer("page", "list", 0, "none", 0, "-")}

InitMain ==
    /\ ReqIdle
    /\ RowsIdle
    /\ CoordIdle
    /\ FlowIdle
    /\ typ = "-"
    /\ start_iso = JStr("2026-02-04T00:00:00Z")
    /\ stop_iso = JStr("2026-02-04T23:59:59Z")
    /\ pagesize = 200
    /\ max_rows \in {1, 2}
    /\ page = 0
    /\ all_rows = <<>>
    /\ last_meta = JNull
    /\ raw_pages = <<>>
    /\ fpc = "off"
    /\ result = NoOutcome
    /\ requests = <<>>
    /\ served = <<>>
    /\ recorded = NoRecord
    /\ first = NoCall
    /\ mpc = "list"
    /\ main_devices = <<>>
    /\ dev_at = 0
    /\ typ_at = 0
    /\ dev_out = JNull
    /\ combined = <<>>
    /\ raw_api = <<>>
    /\ main_exc = NoOutcome
    /\ fetched = <<>>
    /\ failed = {}

\* fetch_extended_all_pages is called for the type at position j
CallFetch(j) ==
    LET loc == Entered([page |-> page, all_rows |-> all_rows,
                        last_meta |-> last_meta, raw_pages |-> raw_pages])
    IN  /\ typ' = types[j]
        /\ typ_at' = j
        /\ page' = loc.page
        /\ all_rows' = loc.all_rows
        /\ last_meta' = loc.last_meta
        /\ raw_pages' = loc.raw_pages
        /\ fpc' = "loop"
        /\ result' = NoOutcome
        /\ fetched' = Append(fetched, <<dev_at', types[j]>>)
        /\ mpc' = "fetch"

\* the device-list request, its check and the device array
MainList ==
    /\ mpc = "list"
    /\ \E a \in MainListAnswers :
        LET got == MainDevices(RenderList(a))
            dv == IF Raised(got) THEN got ELSE MainDevicesOf(got.value)
            it == IF Raised(dv) THEN dv ELSE Iterated(dv.value)
        IN  IF Raised(it)
              THEN /\ mpc' = "aborted"
                   /\ main_exc' = it
                   /\ UNCHANGED <<main_devices, dev_at>>
              ELSE /\ mpc' = "device"
                   /\ main_devices' = it.value
                   /\ dev_at' = 1
                   /\ UNCHANGED main_exc
    /\ UNCHANGED <<reqVars, rowVars, pagerVars, coordVars, flowVars, typ_at, dev_out,
                   combined, raw_api, fetched, failed>>

\* the head of the loop body for the next device and the call for the
\* first type, or the end of the loop
MainDevice ==
    /\ mpc = "device"
    /\ UNCHANGED <<reqVars, rowVars, coordVars, flowVars, start_iso, stop_iso, pagesize,
                   max_rows, requests, served, recorded, first, main_devices, dev_at,
                   combined, raw_api, failed>>
    /\ IF dev_at > Len(main_devices)
         THEN /\ mpc' = "done"
              /\ UNCHANGED <<typ, page, all_rows, last_meta, raw_pages, fpc, result,
                             typ_at, dev_out, main_exc, fetched>>
         ELSE LET h == Header(main_devices[dev_at]) IN
              IF Raised(h)
                THEN /\ mpc' = "aborted"
                     /\ main_exc' = h
                     /\ UNCHANGED <<typ, page, all_rows, last_meta, raw_pages, fpc, result,
                                    typ_at, dev_out, fetched>>
                ELSE /\ dev_out' = h.value
                     /\ CallFetch(1)
                     /\ UNCHANGED main_exc

\* one iteration of the loop of fetch_extended_all_pages
MainFetch ==
    /\ mpc = "fetch"
    /\ \E a \in MainAnswers :
        LET r == Render(typ, page, a)
            st == PageStep(r)
        IN  /\ raw_pages' = RawAfter(r)
            /\ all_rows' = st.all_rows
            /\ last_meta' = st.last_meta
            /\ result' = st.out
            /\ page' = IF st.ctl = "continue" THEN page + 1 ELSE page
            /\ fpc' = IF st.ctl = "continue" THEN "loop"
                      ELSE IF st.ctl = "raise" THEN "raised" ELSE "returned"
            /\ mpc' = IF st.ctl = "continue" THEN "fetch" ELSE "record"
    /\ UNCHANGED <<reqVars, rowVars, coordVars, flowVars, typ, start_iso, stop_iso, pagesize,
                   max_rows, requests, served, recorded, first, main_devices, dev_at,
                   typ_at, dev_out, combined, raw_api, main_exc, fetched, failed>>

\* the unpacking of the result, the except clause or the two appends, and
\* the step of the loops
MainRecord ==
    LET got == Unpack3(result)
        fail == Raised(got)
        out == WithEntry(dev_out, typ, Entry(result))
        nxt == NextPair(dev_at, typ_at, fail)
    IN  /\ mpc = "record"
        /\ dev_out' = out
        /\ raw_api' = IF fail THEN raw_api
                      ELSE Append(raw_api, RawEntry(dev_out, typ, got.value[3]))
        /\ failed' = IF fail THEN failed \cup {<<dev_at, typ>>} ELSE failed
        /\ dev_at' = nxt.dev
        /\ IF nxt.dev = dev_at
             THEN /\ CallFetch(nxt.typ)
                  /\ UNCHANGED combined
             ELSE /\ combined' = Append(combined, out)
                  /\ typ_at' = nxt.typ
                  /\ mpc' = "device"
                  /\ UNCHANGED <<typ, page, all_rows, last_meta, raw_pages, fpc, result,
                                 fetched>>
        /\ UNCHANGED <<reqVars, rowVars, coordVars, flowVars, start_iso, stop_iso, pagesize,
                       max_rows, requests, served, recorded, first, main_devices, main_exc>>

NextMain ==
    \/ MainList
    \/ MainDevice
    \/ MainFetch
    \/ MainRecord

SpecMain == InitMain /\ [][NextMain]_vars

(***************************************************************************)
(* SpecFlow: the setup flow, SweTrackConfigFlow.async_step_user, for one   *)
(* flow and the config entries that exist.                                 *)
(***************************************************************************)
MaxSubmissions == 2

DEFAULT_BASE_URL == "https://api.cloudappapi.com/publicapi/v1"

\* str.strip() on the strings a form is filled with
Strip(s) ==
    CASE s = " tok " -> "tok"
      [] s = "https://eu.example/v1 " -> "https://eu.example/v1"
      [] OTHER -> s

\* token and base_url of a submission
TokenOf(inp) == Strip(inp.v["token"].v)
BaseUrlOf(inp) == Strip(GetDefault(inp, "base_url", JStr(DEFAULT_BASE_URL)).v)

\* str(x) of a JSON scalar
Str(x) ==
    CASE x.t = "str" -> x.v
      [] x.t = "int" -> ToString(x.v)
      [] x.t = "bool" -> (IF x.v THEN "True" ELSE "False")
      [] OTHER -> "None"

\* acct_data = acct.get("data") or {} and
\* unique = str(acct_data.get("id") or acct_data.get("email") or base_url)
UniqueOf(acct, url) ==
    LET acct_data == Or(Get(acct, "data"), EmptyDict) IN
    IF ~IsDict(acct_data) THEN NoGet(acct_data)
    ELSE Return(Str(Or(Or(Get(acct_data, "id"), Get(acct_data, "email")), JStr(url))))

\* self._abort_if_unique_id_configured(): the flow is aborted by raising
\* AbortFlow, an Exception, when an entry with the flow's unique id exists
AbortIfUniqueIdConfigured(u, existing) ==
    IF u \in existing THEN Raise("AbortFlow", "already_configured", JNull)
    ELSE Return(JNull)

\* the except clauses: errors["base"]
Errors(e) == IF e.exc = "SweTrackApiError" THEN [base |-> "auth"] ELSE [base |-> "unknown"]

\* self.async_show_form(step_id="user", data_schema=schema, errors=errors)
ShowForm(errs) == [type |-> "form", step_id |-> "user", errors |-> errs]

\* self.async_create_entry(title="SweTrack", data={token, base_url})
CreateEntry(inp) ==
    [type |-> "create_entry", title |-> "SweTrack",
     data |-> [token |-> TokenOf(inp), base_url |-> BaseUrlOf(inp)]]

\* what the user may submit: the schema requires token, base_url is optional
Inputs ==
    {JDict([token |-> JStr(" tok ")]),
     JDict([token |-> JStr("tok"), base_url |-> JStr("https://eu.example/v1 ")])}

\* the device-list answers of SpecFlow
FlowListAnswers ==
    {ListAnswer("ok", <<Device("d1")>>)}
    \cup {ListAnswer(k, <<>>) : k \in {"http_error", "api_error", "not_json"}}

\* the answers to GET /account/info
AcctAnswers == {"id", "int_id", "email", "no_data", "data_list", "http_error", "api_error",
                "not_json"}

RenderAcct(a) ==
    CASE a = "id" ->
            [status |-> 200,
             json |-> JDict([success |-> JTrue,
                             data |-> JDict([id |-> JStr("acct-1"),
                                             email |-> JStr("a@b.se")])])]
      [] a = "int_id" ->
            [status |-> 200,
             json |-> JDict([success |-> JTrue, data |-> JDict([id |-> JInt(7)])])]
      [] a = "email" ->
            [status |-> 200,
             json |-> JDict([success |-> JTrue,
                             data |-> JDict([id |-> JNull, email |-> JStr("a@b.se")])])]
      [] a = "no_data" -> [status |-> 200, json |-> JDict([success |-> JTrue])]
      [] a = "data_list" ->
            [status |-> 200, json |-> JDict([success |-> JTrue, data |-> JList(<<JInt(1)>>)])]
      [] a = "http_error" -> [status |-> 401, json |-> EmptyDict]
      [] a = "api_error" ->
            [status |-> 200, json |-> Envelope(TRUE, JFalse, TRUE, JStr("bad token"))]
      [] OTHER -> [status |-> 200, json |-> NotJson]

\* the entries that exist when the flow starts
ExistingEntries == {{}, {"acct-1"}, {"7"}, {DEFAULT_BASE_URL}}

InitFlow ==
    /\ ReqIdle
    /\ RowsIdle
    /\ PagerIdle
    /\ CoordIdle
    /\ MainIdle
    /\ flow_pc = "start"
    /\ user_input = JNull
    /\ unique = JNull
    /\ flow_result = NoResult
    /\ entries \in ExistingEntries
    /\ created = <<>>
    /\ flow_ok = {}
    /\ caught = NoOutcome
    /\ submissions = 0

\* async_step_user(None): the form is shown without errors
FlowOpen ==
    /\ flow_pc = "start"
    /\ flow_result' = ShowForm(<<>>)
    /\ flow_pc' = "idle"
    /\ UNCHANGED <<reqVars, rowVars, pagerVars, coordVars, mainVars, user_input, unique,
                   entries, created, flow_ok, caught, submissions>>

\* async_step_user(user_input): token and base_url are read and the client
\* is built
FlowSubmit ==
    /\ flow_pc = "idle"
    /\ submissions < MaxSubmissions
    /\ \E inp \in Inputs : user_input' = inp
    /\ flow_pc' = "devices"
    /\ flow_result' = NoResult
    /\ unique' = JNull
    /\ flow_ok' = {}
    /\ caught' = NoOutcome
    /\ submissions' = submissions + 1
    /\ UNCHANGED <<reqVars, rowVars, pagerVars, coordVars, mainVars, entries, created>>

\* the submission ends in an except clause and the form is shown again
FormAgain(e) ==
    /\ caught' = e
    /\ flow_result' = ShowForm(Errors(e))
    /\ flow_pc' = "idle"

\* await api.async_get_devices()
FlowDevices ==
    /\ flow_pc = "devices"
    /\ \E a \in FlowListAnswers :
        LET got == Request(RenderList(a)) IN
        IF Raised(got)
          THEN FormAgain(got) /\ UNCHANGED flow_ok
          ELSE /\ flow_ok' = flow_ok \cup {"devices"}
               /\ flow_pc' = "account"
               /\ UNCHANGED <<caught, flow_result>>
    /\ UNCHANGED <<reqVars, rowVars, pagerVars, coordVars, mainVars, user_input, unique,
                   entries, created, submissions>>

\* acct = await api.async_get_account_info(), acct_data and unique
FlowAccount ==
    /\ flow_pc = "account"
    /\ \E a \in AcctAnswers :
        LET got == Request(RenderAcct(a))
            u == IF Raised(got) THEN got ELSE UniqueOf(got.value, BaseUrlOf(user_input))
        IN  /\ flow_ok' = IF Returned(got) THEN flow_ok \cup {"account"} ELSE flow_ok
            /\ IF Raised(u)
                 THEN FormAgain(u) /\ UNCHANGED unique
                 ELSE /\ unique' = u.value
                      /\ flow_pc' = "unique"
                      /\ UNCHANGED <<caught, flow_result>>
    /\ UNCHANGED <<reqVars, rowVars, pagerVars, coordVars, mainVars, user_input,
                   entries, created, submissions>>

\* await self.async_set_unique_id(unique), self._abort_if_unique_id_configured()
\* and the else clause of the try statement
FlowUnique ==
    /\ flow_pc = "unique"
    /\ LET chk == AbortIfUniqueIdConfigured(unique, entries) IN
       IF Raised(chk)
         THEN FormAgain(chk) /\ UNCHANGED <<entries, created>>
         ELSE /\ flow_result' = CreateEntry(user_input)
              /\ entries' = entries \cup {unique}
              /\ created' = Append(created, CreateEntry(user_input).data)
              /\ flow_pc' = "done"
              /\ UNCHANGED caught
    /\ UNCHANGED <<reqVars, rowVars, pagerVars, coordVars, mainVars, user_input, unique,
                   flow_ok, submissions>>

NextFlow ==
    \/ FlowOpen
    \/ FlowSubmit
    \/ FlowDevices
    \/ FlowAccount
    \/ FlowUnique

SpecFlow == InitFlow /\ [][NextFlow]_vars

(***************************************************************************)
(* Properties of Spec.                                                     *)
(***************************************************************************)
\* the ids the loop of a cycle handles: the truthy ids of the device list
HandledIds(devs) ==
    {Get(devs[i], "id").v :
        i \in {j \in 1..Len(devs) : IsDict(devs[j]) /\ Truthy(Get(devs[j], "id"))}}

\* a snapshot is whole: its extended mapping has an entry for every device
\* the loop handles, and for nothing else
Whole(s) ==
    \/ s = NoData
    \/ DOMAIN s.v.extended.v = IF fetch_extended THEN HandledIds(s.v.devices.v) ELSE {}

\* a cycle ends in this step
CycleEnds == pc = "finish" /\ pc' = "idle"

\* C1: when a refresh other than the first fails because the device-list
\* request or an extended request raised, the current snapshot stays the
\* snapshot of the last successful refresh, in all its parts, and the cycle
\* is marked as failed
C1_FailedRefreshKeepsSnapshot ==
    [][(CycleEnds /\ trigger = "refresh" /\ bad # "-")
         => /\ data' = data
            /\ data' = last_good'
            /\ last_good' = last_good
            /\ last_update_success' = FALSE]_vars

\* a later refresh has failed on a voltage request after a refresh that
\* filled the extended mapping: that snapshot is still the current one
C1_Witness ==
    /\ setup_pc = "loaded"
    /\ pc = "idle"
    /\ bad = "voltage"
    /\ ~last_update_success
    /\ data # NoData
    /\ data = last_good
    /\ DOMAIN data.v.extended.v # {}

\* C2: whatever the point of a running cycle a consumer reads at, the
\* current snapshot is the whole snapshot of the last successful refresh
\* (the previous one until the cycle has ended, the new one after), never
\* one whose extended mapping or device list is partly filled
C2_ReadsSeeWholeSnapshots ==
    /\ ~torn_reads
    /\ data = last_good
    /\ Whole(data)

\* a consumer has read between the two devices of a cycle: the cycle's own
\* mapping holds one device of two, the snapshot read is another, whole one
C2_Witness ==
    /\ mid_read
    /\ pc = "position"
    /\ Len(devices) = 2
    /\ DOMAIN extended_by_device = {"d2"}
    /\ data # NoData
    /\ data # Snapshot(devices_payload, devices, extended_by_device)
    /\ Whole(data)

\* C3: a failed first refresh fails the setup for good, with no coordinator
\* stored and no platform set up; and platforms are set up only after a
\* successful refresh has produced a snapshot
C3_FailedFirstRefreshFailsSetup ==
    /\ [](/\ setup_pc = "failed" => (~hass_data /\ ~platforms /\ ~timer /\ data = NoData)
          /\ (platforms \/ hass_data) => (setup_pc = "loaded" /\ data # NoData))
    /\ [][/\ (CycleEnds /\ trigger = "first" /\ bad # "-") => setup_pc' = "failed"
          /\ setup_pc = "failed" => UNCHANGED <<setup_pc, hass_data, platforms, data>>]_vars

\* the device-list request of the first refresh has failed
C3_Witness ==
    /\ setup_pc = "failed"
    /\ bad = "devices"
    /\ pc = "idle"
    /\ ~last_update_success
    /\ ~hass_data
    /\ ~platforms

\* C4: at most one refresh cycle is in flight: a trigger that arrives while
\* a cycle runs starts no second one, and only the one running cycle writes
\* the current snapshot, when it ends
C4_SingleFlight ==
    /\ [](inflight \in {0, 1} /\ (inflight = 1 <=> pc # "idle"))
    /\ [][/\ inflight = 1 => inflight' <= 1
          /\ data' # data => (inflight = 1 /\ inflight' = 0)]_vars

\* a trigger has arrived between two requests of a running cycle and was
\* dropped
C4_Witness ==
    /\ dropped
    /\ inflight = 1
    /\ pc = "voltage"

\* the ids carried by the entries of a device list
ListedIds(devs) ==
    {Get(devs[i], "id") : i \in {j \in 1..Len(devs) : IsDict(devs[j])}}

\* the snapshot a cycle is about to return
Built == Snapshot(devices_payload, devices, extended_by_device)

\* C12: in every snapshot a cycle produces, published or about to be
\* returned, every key of the extended mapping is the id of a device of
\* that snapshot's device list
C12_ExtendedKeysAreListed ==
    /\ data # NoData =>
        \A k \in DOMAIN data.v.extended.v : JStr(k) \in ListedIds(data.v.devices.v)
    /\ (pc = "finish" /\ exc = NoOutcome) =>
        \A k \in DOMAIN Built.v.extended.v : JStr(k) \in ListedIds(Built.v.devices.v)

\* a published snapshot with a bundle for each of the two listed devices
C12_Witness ==
    /\ pc = "idle"
    /\ data # NoData
    /\ Len(data.v.devices.v) = 2
    /\ DOMAIN data.v.extended.v = {"d1", "d2"}

\* C13: once a device-list or extended request has failed, the cycle
\* issues no further request; it ends in UpdateFailed, and its end
\* publishes nothing
C13_FirstErrorEndsCycle ==
    /\ [](bad # "-" =>
            /\ pc \in {"finish", "idle"}
            /\ issued[Len(issued)][1] = bad
            /\ pc = "finish" => (Raised(UpdateData(exc, devices_payload, devices, extended_by_device))
                                 /\ UpdateData(exc, devices_payload, devices,
                                               extended_by_device).exc = "UpdateFailed"))
    /\ [][(CycleEnds /\ bad # "-")
            => (data' = data /\ ~last_update_success' /\ issued' = issued)]_vars

\* the position request of the first of two devices has failed after the
\* snapshot of an earlier refresh was published: the cycle is over with
\* two requests issued
C13_Witness ==
    /\ pc = "finish"
    /\ bad = "position"
    /\ Len(devices) = 2
    /\ Len(issued) = 2
    /\ exc # NoOutcome
    /\ data # NoData

\* C14: with fetch_extended false a cycle issues the device-list request
\* and nothing else, and its snapshot has an empty extended mapping
C14_NoExtendedWhenDisabled ==
    ~fetch_extended =>
        /\ pc \notin {"position", "voltage"}
        /\ pc \in {"finish", "idle"} /\ issued # <<>> => issued = <<ListRequest>>
        /\ pc = "finish" /\ exc = NoOutcome => Built.v.extended = EmptyDict
        /\ data # NoData => data.v.extended = EmptyDict

\* a snapshot with two devices and no extended entry, after one request
C14_Witness ==
    /\ ~fetch_extended
    /\ pc = "idle"
    /\ data # NoData
    /\ Len(data.v.devices.v) = 2
    /\ data.v.extended = EmptyDict
    /\ issued = <<ListRequest>>

\* C15: the device-list request is the first request of every cycle and
\* the only one of its kind, and when it fails it stays the only request
C15_DeviceListFirst ==
    /\ issued # <<>> => issued[1][1] = "devices"
    /\ \A i \in 2..Len(issued) : issued[i][1] # "devices"
    /\ pc \in {"position", "voltage"} => (issued # <<>> /\ devices_payload # JNull)
    /\ bad = "devices" => (Len(issued) = 1 /\ pc \in {"finish", "idle"})

\* the device list has failed with an HTTP error whose body lists a device
C15_Witness ==
    /\ bad = "devices"
    /\ fetch_extended
    /\ pc = "finish"
    /\ exc.msg = "HTTP"
    /\ issued = <<ListRequest>>

(***************************************************************************)
(* Properties of SpecRows.                                                 *)
(***************************************************************************)
BothRan == tool_rows # JNull /\ coord_rows # JNull

\* the data object of the payload, {} when it is missing or null
ExData == Or(GetDefault(ex_payload, "data", EmptyDict), EmptyDict)

\* the field the claim's rule reads: the plural field only when the exact
\* one is absent
ClaimedField ==
    IF ex_typ = "position" THEN GetDefault(ExData, "positions", EmptyList)
    ELSE IF ex_typ = "voltage" THEN GetDefault(ExData, "voltage", EmptyList)
    ELSE IF ex_typ \in DOMAIN ExData.v THEN ExData.v[ex_typ]
    ELSE IF (ex_typ \o "s") \in DOMAIN ExData.v THEN ExData.v[ex_typ \o "s"]
    ELSE EmptyList

\* the field both extractions read: the plural field when the exact one is
\* absent or falsy (null, empty list)
SelectedField ==
    IF ex_typ = "position" THEN GetDefault(ExData, "positions", EmptyList)
    ELSE IF ex_typ = "voltage" THEN GetDefault(ExData, "voltage", EmptyList)
    ELSE IF Truthy(Get(ExData, ex_typ)) THEN Get(ExData, ex_typ)
    ELSE IF Truthy(Get(ExData, ex_typ \o "s")) THEN Get(ExData, ex_typ \o "s")
    ELSE EmptyList

\* C16 (as stated): position reads positions, voltage reads voltage, any
\* other type reads the field named exactly the type and falls back to
\* type + "s" only when the exact field is absent; both extractions return
\* the rows of that field.
C16_PluralOnlyWhenExactAbsent ==
    (BothRan /\ IsDict(ExData) /\ IsList(ClaimedField))
        => (tool_rows = ClaimedField /\ coord_rows = ClaimedField)

\* C16 (amended): as above, with the fallback to type + "s" taken when the
\* exact field is absent or falsy; both extractions return the rows of the
\* selected field when it is a list, and no rows when it is null or when
\* the data object is no object.
C16_PerTypeRule ==
    /\ (BothRan /\ IsDict(ExData) /\ IsList(SelectedField))
        => (tool_rows = SelectedField /\ coord_rows = SelectedField)
    /\ (BothRan /\ (~IsDict(ExData) \/ SelectedField = JNull))
        => (tool_rows = EmptyList /\ coord_rows = EmptyList)

\* type humidity and {data: {humidity: [{value: 41}]}}: that one row, from
\* both extractions
C16_Witness ==
    /\ ex_typ = "humidity"
    /\ ex_payload = JDict([data |-> JDict([humidity |-> JList(<<ValueRow(41)>>)])])
    /\ tool_rows = JList(<<ValueRow(41)>>)
    /\ coord_rows = JList(<<ValueRow(41)>>)

\* C17 (as stated): a lone object in place of the row list becomes a
\* one-element list, in the paginator and in _extract_extended_rows alike.
C17_LoneObjectIsOneRow ==
    (BothRan /\ IsDict(ExData) /\ IsDict(SelectedField))
        => (tool_rows = JList(<<SelectedField>>) /\ coord_rows = JList(<<SelectedField>>))

\* the answer to the last request of that kind for that device
LastSent(kind, id) ==
    LET hits == {i \in 1..Len(issued) : issued[i][1] = kind /\ issued[i][2] = id}
    IN  issued[CHOOSE i \in hits : \A j \in hits : j <= i][3]

\* the bundle holds, under key, the first row the server sent for the
\* type, and has no such key when the server sent no row
LatestIs(bundle, key, sent) ==
    /\ sent.shape = "list" => (key \in DOMAIN bundle.v /\ bundle.v[key] = sent.first)
    /\ sent.shape = "none" => key \notin DOMAIN bundle.v

\* a refresh with fetch_extended has run to its end without exception
\* (snapshot about to be returned), or has just been published
Succeeded(snap) ==
    /\ fetch_extended
    /\ bad = "-"
    /\ \/ pc = "finish" /\ exc = NoOutcome /\ snap = Built
       \/ pc = "idle" /\ last_update_success /\ issued # <<>> /\ snap = data

\* C18: after a successful refresh with fetch_extended, every device with a
\* non-empty id has position_latest equal to the first row of its position
\* response and voltage_latest equal to the first row of its voltage
\* response, a type without rows has no key, and answers without rows
\* never fail the cycle
C18_LatestIsFirstRow ==
    /\ \A snap \in {Built, data} :
        Succeeded(snap) =>
            \A id \in HandledIds(snap.v.devices.v) :
                /\ id \in DOMAIN snap.v.extended.v
                /\ LatestIs(snap.v.extended.v[id], "position_latest", LastSent("position", id))
                /\ LatestIs(snap.v.extended.v[id], "voltage_latest", LastSent("voltage", id))
    /\ (pc = "finish" /\ exc # NoOutcome) => (bad # "-" \/ Len(issued) = 1)

\* device list [d1], a position response with one row and no pagination
\* object, a voltage response without rows: the published bundle of d1
\* holds that row as position_latest and nothing else
C18_Witness ==
    /\ pc = "idle"
    /\ last_update_success
    /\ data # NoData
    /\ data.v.devices.v = <<Device("d1")>>
    /\ issued = <<ListRequest,
                  <<"position", "d1", [shape |-> "list", first |-> ExtRow("position", 1, 1)],
                    ExtendedBody("d1", "position", 1)>>,
                  <<"voltage", "d1", NoRows, ExtendedBody("d1", "voltage", 1)>>>>
    /\ data.v.extended.v["d1"] = JDict([position_latest |-> ExtRow("position", 1, 1)])

\* the device array of a device-list payload, as the server sent it
SentDevices(payload) == Get(Get(payload, "data"), "devices")

\* C19 (as stated): whatever device list the server returned, no two
\* devices of a snapshot share an id, and the devices are in the order the
\* API returned them.
C19_DeviceIdsUnique ==
    (data # NoData /\ IsDict(Get(data.v.devices_payload, "data"))
                   /\ IsList(SentDevices(data.v.devices_payload)))
        => /\ data.v.devices = SentDevices(data.v.devices_payload)
           /\ \A i, j \in 1..Len(data.v.devices.v) :
                (i # j /\ IsDict(data.v.devices.v[i]) /\ IsDict(data.v.devices.v[j]))
                    => Get(data.v.devices.v[i], "id") # Get(data.v.devices.v[j], "id")

\* the devices the loop of a cycle handles, in the order of the list
HandledSeq(devs) == SelectSeq(devs, LAMBDA d : IsDict(d) /\ Truthy(Get(d, "id")))

\* the request asks for the latest row of that type of that device
AsksLatest(req, kind, id) ==
    /\ req[1] = kind
    /\ req[2] = id
    /\ Get(req[4], "deviceid") = JStr(id)
    /\ Get(req[4], "type") = JStr(kind)
    /\ Get(req[4], "pagesize") = JInt(1)

\* C22: in a refresh with fetch_extended that succeeds, the extended
\* requests are, for every device with a non-empty id in list order, one
\* for position and one for voltage with page size 1; such a device has an
\* entry, the empty bundle when neither type had rows; a device without an
\* id or with an empty id gets no request and no entry and does not stop
\* the devices after it from being processed
C22_EveryDeviceIsAsked ==
    \A snap \in {Built, data} :
        Succeeded(snap) =>
            LET hs == HandledSeq(snap.v.devices.v)
                ask == SubSeq(issued, 2, Len(issued))
            IN  /\ Len(ask) = 2 * Len(hs)
                /\ DOMAIN snap.v.extended.v = {Get(hs[k], "id").v : k \in 1..Len(hs)}
                /\ \A k \in 1..Len(hs) :
                      LET id == Get(hs[k], "id").v IN
                      /\ AsksLatest(ask[2 * k - 1], "position", id)
                      /\ AsksLatest(ask[2 * k], "voltage", id)
                      /\ (LastSent("position", id) = NoRows /\ LastSent("voltage", id) = NoRows)
                            => snap.v.extended.v[id] = EmptyDict

\* device list [device without id, d1], both answers for d1 without rows:
\* the published snapshot maps d1 to the empty bundle and nothing else
C22_Witness ==
    /\ pc = "idle"
    /\ last_update_success
    /\ fetch_extended
    /\ data # NoData
    /\ data.v.devices.v = <<NoIdDevice, Device("d1")>>
    /\ issued = <<ListRequest,
                  <<"position", "d1", NoRows, ExtendedBody("d1", "position", 1)>>,
                  <<"voltage", "d1", NoRows, ExtendedBody("d1", "voltage", 1)>>>>
    /\ data.v.extended.v = ("d1" :> EmptyDict)

(***************************************************************************)
(* Properties of SpecLive.                                                 *)
(***************************************************************************)
\* the entry is set up, no cycle runs and the last refresh has failed
IdleAfterFailure == setup_pc = "loaded" /\ pc = "idle" /\ ~last_update_success

\* C21: after a failed refresh that was not the first the scheduler is idle
\* with the timer armed, another cycle is eventually started, and a cycle
\* that ends without failure replaces the stale snapshot with its own
C21_FailureIsRetried ==
    /\ [](IdleAfterFailure => timer)
    /\ (IdleAfterFailure ~> (pc = "devices"))
    /\ [][(CycleEnds /\ exc = NoOutcome) => (data' = Built /\ last_update_success')]_vars

\* the device-list request of a later refresh has failed: the snapshot of
\* the first refresh is still there and the timer is armed
C21_Witness ==
    /\ IdleAfterFailure
    /\ bad = "devices"
    /\ timer
    /\ data # NoData

(***************************************************************************)
(* Properties of SpecPager: the requests of one fetch.                     *)
(***************************************************************************)
\* a time filter is given when it is neither None nor the empty string;
\* main, too, takes an empty --start or --stop for one that was not given
Given(f) == f # JNull /\ f # JStr("")

\* the body carries the field exactly when the filter is given, and then
\* with the filter's value
Carries(body, field, f) ==
    /\ (field \in DOMAIN body.v) <=> Given(f)
    /\ Given(f) => body.v[field] = f

\* C23: within one fetch the i-th request asks for page i, every request
\* carries the same deviceid, type and pagesize, and startdatetime and
\* stopdatetime are in a body exactly when the filter was given, with the
\* filter's value on every page
C23_PagesInOrder ==
    \A i \in 1..Len(requests) :
        /\ IsDict(requests[i])
        /\ Get(requests[i], "page") = JInt(i)
        /\ Get(requests[i], "deviceid") = JStr(device_id)
        /\ Get(requests[i], "type") = JStr(typ)
        /\ Get(requests[i], "pagesize") = JInt(pagesize)
        /\ Carries(requests[i], "startdatetime", start_iso)
        /\ Carries(requests[i], "stopdatetime", stop_iso)

\* a fetch of three pages with a start filter and no stop filter
C23_Witness ==
    /\ Given(start_iso)
    /\ ~Given(stop_iso)
    /\ Len(requests) = 3
    /\ fpc = "returned"
    /\ Get(requests[3], "page") = JInt(3)
    /\ "startdatetime" \in DOMAIN requests[3].v

\* max(1, n)
AtLeastOne(n) == IF n > 1 THEN n ELSE 1

\* C24: the loop is left after at most max(1, max_rows) page requests
\* whatever the server answers: while the loop goes on fewer requests than
\* that have been made, and every page after which it goes on has added at
\* least one row
C24_PagesAreBounded ==
    /\ [](Len(requests) <= AtLeastOne(max_rows))
    /\ [](fpc = "loop" => Len(requests) < AtLeastOne(max_rows))
    /\ [][(fpc = "loop" /\ fpc' = "loop" /\ requests' # requests)
            => Len(all_rows') > Len(all_rows)]_vars

\* a server that never reports total_pages and fills every page: the fetch
\* with the largest cap ends at the cap, with as many requests as rows
C24_Witness ==
    /\ max_rows = MaxRowsBound
    /\ fpc = "returned"
    /\ Len(requests) = max_rows
    /\ \A i \in 1..Len(served) :
        served[i].kind = "page" /\ served[i].pag = "none" /\ served[i].n = 1

(***************************************************************************)
(* Properties of SpecMain.                                                 *)
(***************************************************************************)
\* the (device position, type) pairs of n devices, in the order of the loops
Pairs(n) ==
    [k \in 1..(n * Len(types)) |->
        <<((k - 1) \div Len(types)) + 1, types[((k - 1) % Len(types)) + 1]>>]

\* the fetch of the pair the loops are at has failed and is being recorded
PairFailed == mpc = "record" /\ Raised(Unpack3(result))

\* C25: a failed fetch of one (device, type) pair is recorded as
\* {error, rows: []}, appends nothing to the raw pages and lets the loops go
\* on with the next type or, after the last type, with the next device,
\* whose dev_out is appended to the combined output; a run that ends has
\* fetched every pair and holds an entry for every type of every device;
\* no fetch aborts the run: only the device-list request, or a device list
\* that cannot be read, does
C25_FailureIsIsolated ==
    /\ [][PairFailed =>
            /\ Get(Get(dev_out', "extended"), typ)
                 = JDict([error |-> JStr(Unpack3(result).msg), rows |-> EmptyList])
            /\ raw_api' = raw_api
            /\ typ_at < Len(types)
                 => (mpc' = "fetch" /\ fetched' = Append(fetched, <<dev_at, types[typ_at + 1]>>))
            /\ typ_at = Len(types)
                 => (mpc' = "device" /\ dev_at' = dev_at + 1
                     /\ combined' = Append(combined, dev_out'))]_vars
    /\ [](mpc = "done" =>
            /\ fetched = Pairs(Len(main_devices))
            /\ Len(combined) = Len(main_devices)
            /\ Len(raw_api) = Len(fetched) - Cardinality(failed)
            /\ \A i \in 1..Len(combined) : \A j \in 1..Len(types) :
                 LET e == Get(Get(combined[i], "extended"), types[j]) IN
                 /\ IsDict(e)
                 /\ ("error" \in DOMAIN e.v) <=> (<<i, types[j]>> \in failed))
    /\ [][(mpc' = "aborted" /\ mpc # "aborted") => mpc \in {"list", "device"}]_vars

\* two devices, the position fetch of the first fails, the three other
\* fetches succeed: the run ends with both devices in the combined output
\* and three raw-page entries
C25_Witness ==
    /\ mpc = "done"
    /\ Len(main_devices) = 2
    /\ failed = {<<1, "position">>}
    /\ Len(combined) = 2
    /\ Len(raw_api) = 3
    /\ "error" \in DOMAIN Get(Get(combined[1], "extended"), "position").v
    /\ "rows" \in DOMAIN Get(Get(combined[2], "extended"), "voltage").v

(***************************************************************************)
(* Properties of SpecFlow.                                                 *)
(***************************************************************************)
\* a submission has been handled and its result returned
Submitted == submissions > 0 /\ flow_pc \in {"idle", "done"}

\* C26 (as stated): an entry is created only when both calls of the
\* submission returned and the unique id was not configured; an API error
\* shows the form with error auth and any other exception with error
\* unknown, without an entry; a submission whose unique id is already
\* configured aborts the flow
C26_FlowOutcomes ==
    /\ flow_result.type = "create_entry"
         => (flow_ok = {"devices", "account"} /\ caught = NoOutcome /\ Len(created) = 1)
    /\ (Submitted /\ caught.exc = "SweTrackApiError")
         => (flow_result = ShowForm([base |-> "auth"]) /\ created = <<>>)
    /\ (Submitted /\ Raised(caught) /\ caught.exc \notin {"SweTrackApiError", "AbortFlow"})
         => (flow_result = ShowForm([base |-> "unknown"]) /\ created = <<>>)
    /\ (Submitted /\ caught.exc = "AbortFlow") => flow_result.type = "abort"

=============================================================================
